---- MODULE Spec2Model ----
(***************************************************************************)
(* Event ingestion and reply-dispatch pipeline of bot.py: the catch-up     *)
(* scan, the Jetstream listener, the bounded event queue, the worker       *)
(* threads, the dedup cache, the thread-depth guard and the rate limiter.  *)
(***************************************************************************)
EXTENDS Integers, Sequences, FiniteSets, TLC

(***************************************************************************)
(* Bounds of the model.                                                    *)
(***************************************************************************)
NumWorkers == 2               \* num_workers = min(8, cpu_count + 2)
QueueMaxSize == 1             \* queue.Queue(maxsize=1000)
MaxCache == 2                 \* MAX_PROCESSED_URIS_CACHE (default 500)
MaxEvents == 2                \* events the stream delivers in one run
MaxNotifications == 2         \* notifications returned to the catch-up scan
MaxTime == 5                  \* last instant of the clock, in half seconds
MaxTextLen == 4               \* longest post text of a stream message
MaxSplitLen == 5              \* longest text handed to split_text_for_bluesky
MaxLimit == 3                 \* largest limit handed to split_text_for_bluesky
BlueskyLimit == 2             \* limit: int = 300, the limit of a reply segment
MAX_REPLY_THREAD_DEPTH == 3   \* MAX_REPLY_THREAD_DEPTH (default 10)
MaxTokens == 3                \* tokens of a response of the text model
MaxWords == 3                 \* words of an error message
MaxAlerts == 2                \* calls of send_developer_dm in one run

(***************************************************************************)
(* Program constants.  Times are in units of half a second.                *)
(***************************************************************************)
MAX_CONVERSATION_THREAD_DEPTH == 50
gemini_min_interval == 2
bluesky_min_interval == 1
MAX_GEMINI_RETRIES == 3
MAX_VIDEO_GENERATION_RETRIES == 2
MAX_IMAGE_GENERATION_RETRIES == 3
POLL_INTERVAL_SECONDS == 15
MAX_POLLING_ATTEMPTS == 40

Workers == 1..NumWorkers
MainThread == 0
Threads == Workers \cup {MainThread}
NoThread == -1

(***************************************************************************)
(* The posts an event or a notification can be about.  Each post has the   *)
(* attributes the pipeline reads from the network: the length of its       *)
(* parent chain, the kind of its immediate parent and whether its text     *)
(* mentions the bot.                                                       *)
(***************************************************************************)
PostIds == {"pA", "pB", "pC"}

\* number of posts on the parent chain of the post, the post included
thread_length_of(p) ==
    CASE p = "pA" -> 51
      [] p = "pB" -> 50
      [] p = "pC" -> 49
      [] p = "pD" -> 49
      [] p = "pE" -> 50

\* immediate parent: "none" (top-level post), "canned" (the bot's
\* thread-too-long message), "bot" (another post of the bot), "user"
parent_of(p) ==
    CASE p = "pA" -> "canned"
      [] p = "pB" -> "bot"
      [] p = "pC" -> "user"
      [] p = "pD" -> "user"
      [] p = "pE" -> "user"

\* is_mention_of_bot(post_text)
is_mention_of_bot(p) == p \in {"pB", "pC"}

\* posts of the notifications handed to process_mention: those of the stream
\* and replies without a mention whose parent is a post of another user
NotificationPosts == PostIds \cup {"pD", "pE"}

\* keys of the dedup cache: post uris and "dm:<message id>"
CacheKeys == NotificationPosts \cup {"dm:m1"}

Services == {"gemini", "bluesky"}

None == <<0, "None">>         \* the shutdown sentinel put on the queue

VARIABLES
    processed_uris_this_run,  \* OrderedDict keys, oldest first
    jetstream_event_queue,    \* queue.Queue contents, head first
    maxsize,                  \* queue.Queue.maxsize
    unfinished_tasks,         \* queue.Queue.unfinished_tasks
    jetstream_stats,          \* the stats dict
    lpc,                      \* position of the main task
    idx,                      \* loop index of the sentinel and join loops
    joined,                   \* outcome of worker.join(timeout=5.0) per worker
    arrivals,                 \* events yielded by connect_to_jetstream so far
    notifs,                   \* notifications the catch-up scan has visited
    ret,                      \* return value of the last enqueue call
    accepted,                 \* numbers of the events put on the queue
    pc,                       \* position of each thread
    cur,                      \* event (number, post) a thread is processing
    seen,                     \* identity was in the cache when the thread marked it
    had_reply,                \* thread view fetched last had a reply by the bot
    thread_length,            \* thread_length computed last (0: not computed)
    raised,                   \* an exception was raised while processing the event
    sent,                     \* send_post calls made for the current event
    ngen,                     \* generation calls made for the current event
    tmp,                      \* value read by events_processed += 1
    runs,                     \* event number -> calls of process_jetstream_event
    nsentinels,               \* sentinels put on the queue so far
    botReplied,               \* posts that have a direct reply by the bot
    now,                      \* time.time()
    rate_limiter,             \* the RateLimiter instance
    rl_pc,                    \* position of a thread inside a wait function
    rl_svc,                   \* service whose wait function the thread is in
    rl_until,                 \* instant the thread's time.sleep ends
    rl_prev,                  \* service -> instant of the return before the last
    rl_last,                  \* service -> instant of the last return
    lock_holder,              \* thread holding _processed_uris_lock
    cs_pc,                    \* position of a thread in the locked section
    cs_key,                   \* key the thread is inserting
    cs_before,                \* cache contents when the thread took the lock
    ws_pc,                    \* position of connect_to_jetstream
    ws_event,                 \* event parsed from the message being handled
    ws_yield,                 \* the event was yielded to jetstream_listener
    ws_loss,                  \* how the last connection ended
    ws_slept,                 \* asyncio.sleep was awaited since then
    g_pc,                     \* position of the generation part of process_mention
    attempt,                  \* loop variable of the retry loop being run
    primary_gemini_response_obj,  \* what the last response object holds
    gemini_response_text,     \* the reply text is not empty
    media_prompt,             \* "image", "video" or "none"
    media_result,             \* "bytes", "message", "None" or "unset"
    text_trace,               \* attempts and sleeps of the text retry loop
    media_trace,              \* attempts, sleeps and alerts of the media loop
    g_alerts,                 \* send_developer_dm calls
    g_posted,                 \* the reply chain was sent
    reply_text,               \* parts the reply text is made of
    parsed,                   \* the last response parsed and its directives
    outbound,                 \* rate-limiter waits and outbound calls, in order
    polling,                  \* polls, seconds slept and operation.done
    split_text,               \* argument text of split_text_for_bluesky
    split_limit,              \* argument limit of split_text_for_bluesky
    split_posts,              \* list returned by split_text_for_bluesky
    split_pc,                 \* "idle", "called" or "returned"
    post_pc,                  \* position of the posting part of process_mention
    final_response_text,      \* the text handed to split_text_for_bluesky
    media_data_bytes,         \* "None", "small" or "bytes"
    media_type,               \* "image" or "video"
    target_post,              \* the triggering post: its uri and record.reply
    post_texts,               \* the reply plan
    post_i,                   \* loop index of the send loop
    current_parent_ref,       \* parent of the next post
    current_root_ref,         \* root of the next post
    embed_to_post,            \* embed of the post being sent
    post_log,                 \* upload_blob and send_post calls, in order
    stats,                    \* the copy of jetstream_stats being evaluated
    health_pc,                \* position of log_jetstream_stats
    health_alerts,            \* alerts sent in this evaluation
    dm_pc,                    \* position of send_developer_dm
    dm_alert,                 \* the alert send_developer_dm is handling
    dm_log,                   \* what each alert led to, in order
    cls_args,                 \* arguments of is_content_policy_failure
    cls_result,               \* its return value, "unset" before the return
    start_pc,                 \* position of the start of the process
    bsky_client,              \* the global bsky_client: "None" or "client"
    genai_client,             \* the global genai_client: "None" or "client"
    started                   \* what main() has started

qvars == <<jetstream_event_queue, maxsize, unfinished_tasks,
           jetstream_stats, ret, accepted, arrivals>>
lvars == <<lpc, idx, joined, notifs>>
locals == <<cur, seen, had_reply, thread_length, raised, sent, ngen>>
ghost == <<runs, nsentinels>>
rlvars == <<now, rate_limiter, rl_pc, rl_svc, rl_until, rl_prev, rl_last>>
csvars == <<lock_holder, cs_pc, cs_key, cs_before>>
stvars == <<ws_pc, ws_event, ws_yield, ws_loss, ws_slept>>
genvars == <<g_pc, attempt, primary_gemini_response_obj,
             gemini_response_text, media_prompt, media_result, text_trace,
             media_trace, g_alerts, g_posted, reply_text, parsed,
             outbound, polling>>
splitvars == <<split_text, split_limit, split_posts, split_pc>>
postvars == <<post_pc, final_response_text, media_data_bytes, media_type,
              target_post, post_texts, post_i, current_parent_ref,
              current_root_ref, embed_to_post, post_log>>
healthvars == <<stats, health_pc, health_alerts>>
dmvars == <<dm_pc, dm_alert, dm_log>>
morevars == <<cls_args, cls_result, start_pc, bsky_client, genai_client,
              started>>
latevars == <<splitvars, postvars, healthvars, dmvars, morevars>>
auxvars == <<rlvars, csvars, stvars, genvars, latevars>>
mainvars == <<qvars, lvars, pc, locals, tmp, ghost, botReplied>>

vars == <<processed_uris_this_run, mainvars, auxvars>>

SeqToSet(s) == {s[i] : i \in 1..Len(s)}

Post(e) == e[2]
Key(e) == e[2]                \* post_uri = at://did/collection/rkey

(***************************************************************************)
(* Dedup cache.  processed_uris_this_run[k] = None appends a new key and   *)
(* keeps the position of a key that is present; popitem(last=False)        *)
(* removes the oldest key.                                                 *)
(***************************************************************************)
\* variant: an assignment that moves a present key to the end
dict_setitem_lru(cache, k) ==
    Append(SelectSeq(cache, LAMBDA x : x # k), k)

dict_setitem(cache, k) ==
    IF k \in SeqToSet(cache) THEN cache ELSE Append(cache, k)

popitem_first(cache) == Tail(cache)

\* the locked section as a whole: insert, then evict if over the maximum
MarkSeen(cache, k) ==
    LET put == dict_setitem(cache, k)
    IN  IF Len(put) > MaxCache THEN popitem_first(put) ELSE put

\* get_thread_length on a fetched thread view: the walk up the parent chain
\* stops at an ancestor that is not a resolvable post
FetchOutcomes == {"thread", "partial", "notfound", "raise"}
get_thread_length(p, r) == IF r = "partial" THEN 1 ELSE thread_length_of(p)

\* variant: a cap that is passed only above the maximum
OverLimit_gt(n) == n > MAX_CONVERSATION_THREAD_DEPTH

\* thread_length >= MAX_CONVERSATION_THREAD_DEPTH
OverLimit(n) == n >= MAX_CONVERSATION_THREAD_DEPTH

\* variant: a queue that takes one item more than maxsize
QueueFull_offbyone(q) == Len(q) > maxsize

\* queue.Queue.put_nowait raises queue.Full
QueueFull(q) == Len(q) >= maxsize

\* variant: a put that places the item at the head of the queue
QueueAfterPut_front(q, item) == <<item>> \o q

\* what queue.Queue.put_nowait leaves on the queue: the item is appended
QueueAfterPut(q, item) == Append(q, item)

\* variant: a get that leaves the item on the queue
QueueAfterGet_peek(q) == q

\* what queue.Queue.get leaves on the queue
QueueAfterGet(q) == Tail(q)

\* where a thread continues after its pipeline returned
Return(t) == IF t = MainThread THEN "cu_count" ELSE "count_read"

\* variant: an exception that escapes process_jetstream_event and reaches
\* the except clause of the worker
OnException_escape(t) == IF t = MainThread THEN "cu_count" ELSE "count_error"

\* where a thread continues after an exception raised inside the pipeline:
\* it is caught by the except clauses of process_mention and
\* process_jetstream_event, which return normally
OnException(t) == Return(t)

\* the worker's reaction to the None sentinel: break
OnSentinel == "stopped"

(***************************************************************************)
(* Messages of the stream and the relevance filter.  A post text is a      *)
(* sequence of characters; the handle of the bot is the two letters "aa".  *)
(***************************************************************************)
Chars == {"@", "a", "A"}
Texts == UNION {[1..n -> Chars] : n \in 0..MaxTextLen}

BLUESKY_HANDLE == <<"a", "a">>
bot_did == "did:bot"

\* the fields of an event that should_process_jetstream_event reads;
\* parent is "none" for a post without reply, else the owner of the
\* repository named in reply.parent.uri
Events ==
    [kind : {"commit", "identity"},
     operation : {"create", "delete"},
     collection : {"app.bsky.feed.post", "app.bsky.feed.like"},
     did : {bot_did, "did:user"},
     text : Texts,
     parent : {"none", bot_did, "did:user"}]

NoEvent == [kind |-> "none"]

\* str.lower() and str.upper()
lower(str) == [i \in 1..Len(str) |-> IF str[i] = "A" THEN "a" ELSE str[i]]
upper(str) == [i \in 1..Len(str) |-> IF str[i] = "a" THEN "A" ELSE str[i]]

\* pattern in post_text
Contains(pattern, post_text) ==
    \E i \in 0..(Len(post_text) - Len(pattern)) :
        SubSeq(post_text, i + 1, i + Len(pattern)) = pattern

handle_patterns ==
    {<<"@">> \o BLUESKY_HANDLE,
     <<"@">> \o lower(BLUESKY_HANDLE),
     <<"@">> \o upper(BLUESKY_HANDLE)}

\* is_mention_of_bot(post_text) on the text itself
is_mention_of_bot_text(post_text) ==
    /\ post_text # <<>>
    /\ \E pattern \in handle_patterns : Contains(pattern, post_text)

should_process_jetstream_event(event) ==
    /\ event.kind = "commit"
    /\ event.operation = "create"
    /\ event.collection = "app.bsky.feed.post"
    /\ event.did # bot_did
    /\ \/ is_mention_of_bot_text(event.text)
       \/ event.parent # "none" /\ event.parent = bot_did

\* the module globals as they are initialised, the main task at position l,
\* the queue constructed with room for size items
InitProcess(l, size) ==
    /\ processed_uris_this_run = <<>>
    /\ jetstream_event_queue = <<>>
    /\ maxsize = size
    /\ unfinished_tasks = 0
    /\ jetstream_stats = [events_received |-> 0, events_processed |-> 0,
                          events_dropped |-> 0, processing_errors |-> 0]
    /\ lpc = l
    /\ idx = 0
    /\ joined = [w \in Workers |-> "no"]
    /\ arrivals = 0
    /\ notifs = 0
    /\ ret = "none"
    /\ accepted = {}
    /\ pc = [t \in Threads |-> IF t = MainThread THEN "idle" ELSE "get"]
    /\ cur = [t \in Threads |-> None]
    /\ seen = [t \in Threads |-> FALSE]
    /\ had_reply = [t \in Threads |-> FALSE]
    /\ thread_length = [t \in Threads |-> 0]
    /\ raised = [t \in Threads |-> FALSE]
    /\ sent = [t \in Threads |-> <<>>]
    /\ ngen = [t \in Threads |-> 0]
    /\ tmp = [t \in Threads |-> 0]
    /\ runs = [n \in 1..MaxEvents |-> 0]
    /\ nsentinels = 0
    /\ botReplied = {}

\* rate_limiter = RateLimiter(): both timestamps 0.0, while time.time() is
\* far beyond both intervals; no thread is inside a wait function or inside
\* the locked section
InitCore ==
    /\ now = gemini_min_interval
    /\ rate_limiter = [last_gemini_call |-> 0, last_bluesky_call |-> 0]
    /\ rl_pc = [t \in Threads |-> "idle"]
    /\ rl_svc = [t \in Threads |-> "gemini"]
    /\ rl_until = [t \in Threads |-> 0]
    /\ rl_prev = [s \in Services |-> -1]
    /\ rl_last = [s \in Services |-> -1]
    /\ lock_holder = NoThread
    /\ cs_pc = [t \in Threads |-> "idle"]
    /\ cs_key = [t \in Threads |-> "none"]
    /\ cs_before = [t \in Threads |-> <<>>]
    /\ ws_pc = "connect"
    /\ ws_event = NoEvent
    /\ ws_yield = FALSE
    /\ ws_loss = "none"
    /\ ws_slept = FALSE
    /\ g_pc = "idle"
    /\ attempt = 0
    /\ primary_gemini_response_obj = "None"
    /\ gemini_response_text = FALSE
    /\ media_prompt = "none"
    /\ media_result = "unset"
    /\ text_trace = <<>>
    /\ media_trace = <<>>
    /\ g_alerts = 0
    /\ g_posted = FALSE
    /\ reply_text = <<>>
    /\ parsed = [response |-> <<>>, video_prompt |-> <<>>,
                 image_prompt_for_imagen |-> <<>>]
    /\ outbound = <<>>
    /\ polling = [n |-> 0, slept |-> 0, done |-> FALSE]

\* what main() starts when both clients exist
Started == {"catch_up", "posting_thread", "listener", "workers"}

\* strong references: no reference, the triggering post, the root its
\* record.reply names, and the post created by the send of segment i
NoRef == [uri |-> "none", n |-> 0]
TriggerRef == [uri |-> "trigger", n |-> 0]
RootRef == [uri |-> "root", n |-> 0]
ResponseRef(i) == [uri |-> "reply", n |-> i]

\* the parts of the program that are not running: no call of
\* split_text_for_bluesky, no event in the posting part, no evaluation of
\* the health checks, no call of send_developer_dm or of
\* is_content_policy_failure, and main() past its start with both clients
\* and everything started; the part named by running is left to the
\* specification of that part
InitLate(running) ==
    /\ running = "split" \/
          /\ split_text = <<>>
          /\ split_limit = 0
          /\ split_posts = <<>>
          /\ split_pc = "idle"
    /\ running = "post" \/
          /\ post_pc = "idle"
          /\ final_response_text = <<>>
          /\ media_data_bytes = "None"
          /\ media_type = "None"
          /\ target_post = [uri |-> NoRef, reply |-> NoRef]
          /\ post_texts = <<>>
          /\ post_i = 0
          /\ current_parent_ref = NoRef
          /\ current_root_ref = NoRef
          /\ embed_to_post = "None"
          /\ post_log = <<>>
    /\ running = "health" \/
          /\ stats = [events_received |-> 0, processing_errors |-> 0,
                      events_dropped |-> 0, queue_size |-> 0]
          /\ health_pc = "idle"
          /\ health_alerts = <<>>
    /\ dm_pc = "idle"
    /\ dm_alert = "none"
    /\ dm_log = <<>>
    /\ running = "classify" \/
          /\ cls_args = [error_msg |-> <<>>, response_obj |-> "None",
                         prompt |-> <<>>]
          /\ cls_result = "unset"
    /\ running = "start" \/
          /\ start_pc = "running"
          /\ bsky_client = "client"
          /\ genai_client = "client"
          /\ started = Started

InitAux == InitCore /\ InitLate("none")

InitMain(l) == InitProcess(l, QueueMaxSize)

\* state at the start of jetstream_listener after a catch-up scan that found
\* no notification
Init == InitMain("listen") /\ InitAux

\* state at the start of main(): the catch-up scan comes first
InitCatchUp == InitMain("catchup") /\ InitAux

\* the process is alive until asyncio.run(main()) returns; the workers are
\* daemon threads started by jetstream_listener
WorkersRunning == lpc \in {"listen", "sentinels", "join"}

\* a thread of the process may take a step
Alive(t) == IF t = MainThread THEN lpc = "catchup" ELSE WorkersRunning

Goto(t, l) == pc' = [pc EXCEPT ![t] = l]

\* the locals of process_jetstream_event and process_mention are fresh at
\* each call and dead after the return
FreshLocals(t) ==
    /\ seen' = [seen EXCEPT ![t] = FALSE]
    /\ had_reply' = [had_reply EXCEPT ![t] = FALSE]
    /\ thread_length' = [thread_length EXCEPT ![t] = 0]
    /\ raised' = [raised EXCEPT ![t] = FALSE]
    /\ sent' = [sent EXCEPT ![t] = <<>>]
    /\ ngen' = [ngen EXCEPT ![t] = 0]

\* a thread starts on an event (None: it is between two events)
StartEvent(t, e) ==
    /\ cur' = [cur EXCEPT ![t] = e]
    /\ FreshLocals(t)

(***************************************************************************)
(* catch_up_missed_notifications: runs in the main thread before the       *)
(* listener starts.                                                        *)
(***************************************************************************)
CatchUpNotification(p) ==
    /\ lpc = "catchup"
    /\ pc[MainThread] = "idle"
    /\ notifs < MaxNotifications
    /\ notifs' = notifs + 1
    /\ IF p \in SeqToSet(processed_uris_this_run)
         THEN UNCHANGED <<pc, locals>>
         ELSE /\ Goto(MainThread, "pm_mark")
              /\ StartEvent(MainThread, <<0, p>>)
    /\ UNCHANGED <<processed_uris_this_run, qvars, lpc, idx, joined, tmp,
                   ghost, botReplied, auxvars>>

\* process_mention returned: processed_in_catchup += 1, next notification
CatchUpCount ==
    /\ lpc = "catchup"
    /\ pc[MainThread] = "cu_count"
    /\ Goto(MainThread, "idle")
    /\ StartEvent(MainThread, None)
    /\ UNCHANGED <<processed_uris_this_run, qvars, lvars, tmp, ghost,
                   botReplied, auxvars>>

\* the scan is over; main() goes on to main_bot_loop and jetstream_listener
CatchUpDone ==
    /\ lpc = "catchup"
    /\ pc[MainThread] = "idle"
    /\ lpc' = "listen"
    /\ UNCHANGED <<processed_uris_this_run, qvars, idx, joined, notifs, pc,
                   locals, tmp, ghost, botReplied, auxvars>>

(***************************************************************************)
(* jetstream_listener: enqueue each yielded event, then shut down.         *)
(***************************************************************************)
\* enqueue_jetstream_event(event) for the next event of the stream
Enqueue(p) ==
    /\ lpc = "listen"
    /\ arrivals < MaxEvents
    /\ arrivals' = arrivals + 1
    /\ IF QueueFull(jetstream_event_queue)
         THEN /\ jetstream_stats' =
                    [jetstream_stats EXCEPT !.events_dropped = @ + 1]
              /\ ret' = FALSE
              /\ UNCHANGED <<jetstream_event_queue, unfinished_tasks, accepted>>
         ELSE /\ jetstream_event_queue' =
                    QueueAfterPut(jetstream_event_queue, <<arrivals + 1, p>>)
              /\ unfinished_tasks' = unfinished_tasks + 1
              /\ jetstream_stats' =
                    [jetstream_stats EXCEPT !.events_received = @ + 1]
              /\ ret' = TRUE
              /\ accepted' = accepted \cup {arrivals + 1}
    /\ UNCHANGED <<processed_uris_this_run, maxsize, lvars, pc, locals, tmp,
                   ghost, botReplied, auxvars>>

\* the async for loop is left (cancellation or error): the finally block runs
BeginShutdown ==
    /\ lpc = "listen"
    /\ lpc' = "sentinels"
    /\ idx' = 0
    /\ UNCHANGED <<processed_uris_this_run, qvars, joined, notifs, pc, locals,
                   tmp, ghost, botReplied, auxvars>>

\* for _ in range(num_workers): put_nowait(None), except queue.Full: pass
PutSentinel ==
    /\ lpc = "sentinels"
    /\ IF QueueFull(jetstream_event_queue)
         THEN UNCHANGED <<jetstream_event_queue, unfinished_tasks, nsentinels>>
         ELSE /\ jetstream_event_queue' =
                    QueueAfterPut(jetstream_event_queue, None)
              /\ unfinished_tasks' = unfinished_tasks + 1
              /\ nsentinels' = nsentinels + 1
    /\ IF idx + 1 = NumWorkers
         THEN lpc' = "join" /\ idx' = 0
         ELSE lpc' = lpc /\ idx' = idx + 1
    /\ UNCHANGED <<processed_uris_this_run, jetstream_stats, ret, accepted,
                   arrivals, maxsize, joined, notifs, pc, locals, tmp, runs,
                   botReplied, auxvars>>

\* after the last join: shutdown_jetstream_processing, final stats, return
AfterJoin == IF idx + 1 = NumWorkers THEN "done" ELSE "join"

\* worker.join(timeout=5.0) returns because the worker has terminated
JoinTerminated ==
    /\ lpc = "join"
    /\ pc[idx + 1] = "stopped"
    /\ joined' = [joined EXCEPT ![idx + 1] = "terminated"]
    /\ lpc' = AfterJoin
    /\ idx' = IF idx + 1 = NumWorkers THEN idx ELSE idx + 1
    /\ UNCHANGED <<processed_uris_this_run, qvars, notifs, pc, locals, tmp,
                   ghost, botReplied, auxvars>>

\* worker.join(timeout=5.0) returns because the timeout elapsed
JoinTimeout ==
    /\ lpc = "join"
    /\ pc[idx + 1] # "stopped"
    /\ joined' = [joined EXCEPT ![idx + 1] = "timeout"]
    /\ lpc' = AfterJoin
    /\ idx' = IF idx + 1 = NumWorkers THEN idx ELSE idx + 1
    /\ UNCHANGED <<processed_uris_this_run, qvars, notifs, pc, locals, tmp,
                   ghost, botReplied, auxvars>>

(***************************************************************************)
(* jetstream_event_worker.                                                 *)
(***************************************************************************)
\* event = jetstream_event_queue.get(timeout=1.0), then the call of
\* process_jetstream_event or the break on None.  The queue_size entry of
\* the stats dict is left out: nothing reads it (log_jetstream_stats takes
\* qsize() itself).
Dequeue(w) ==
    /\ WorkersRunning
    /\ pc[w] = "get"
    /\ jetstream_event_queue # <<>>
    /\ LET e == Head(jetstream_event_queue)
       IN  /\ jetstream_event_queue' = QueueAfterGet(jetstream_event_queue)
           /\ IF e = None
                THEN /\ Goto(w, OnSentinel)
                     /\ UNCHANGED <<locals, runs>>
                ELSE /\ Goto(w, "pje_mark")
                     /\ StartEvent(w, e)
                     /\ runs' = [runs EXCEPT ![e[1]] = @ + 1]
    /\ UNCHANGED <<processed_uris_this_run, unfinished_tasks, jetstream_stats,
                   ret, accepted, arrivals, maxsize, lvars, tmp, nsentinels,
                   botReplied, auxvars>>

\* process_jetstream_event has returned or has raised: the try clause adds
\* one to events_processed, the except clause to processing_errors;
\* jetstream_stats[key] += 1 is a read followed by a write
CountRead(w) ==
    /\ WorkersRunning
    /\ pc[w] \in {"count_read", "count_error"}
    /\ tmp' = [tmp EXCEPT ![w] =
                  IF pc[w] = "count_read"
                    THEN jetstream_stats.events_processed
                    ELSE jetstream_stats.processing_errors]
    /\ Goto(w, IF pc[w] = "count_read" THEN "count_write" ELSE "error_write")
    /\ FreshLocals(w)
    /\ UNCHANGED <<processed_uris_this_run, qvars, lvars, cur, ghost,
                   botReplied, auxvars>>

CountWrite(w) ==
    /\ WorkersRunning
    /\ pc[w] \in {"count_write", "error_write"}
    /\ jetstream_stats' =
          IF pc[w] = "count_write"
            THEN [jetstream_stats EXCEPT !.events_processed = tmp[w] + 1]
            ELSE [jetstream_stats EXCEPT !.processing_errors = tmp[w] + 1]
    /\ tmp' = [tmp EXCEPT ![w] = 0]
    /\ Goto(w, "task_done")
    /\ UNCHANGED <<processed_uris_this_run, jetstream_event_queue,
                   unfinished_tasks, ret, accepted, arrivals, maxsize, lvars, locals,
                   ghost, botReplied, auxvars>>

\* finally: jetstream_event_queue.task_done(), then the next loop iteration
TaskDone(w) ==
    /\ WorkersRunning
    /\ pc[w] = "task_done"
    /\ unfinished_tasks' = unfinished_tasks - 1
    /\ Goto(w, "get")
    /\ StartEvent(w, None)
    /\ UNCHANGED <<processed_uris_this_run, jetstream_event_queue,
                   jetstream_stats, ret, accepted, arrivals, maxsize, lvars, tmp, ghost,
                   botReplied, auxvars>>

(***************************************************************************)
(* process_jetstream_event.                                                *)
(***************************************************************************)
\* an exception was raised by the call whose outcome is r
NoteRaise(t, r) == raised' = [raised EXCEPT ![t] = @ \/ (r = "raise")]

\* with _processed_uris_lock: insert the post uri, evict the oldest
PJEMark(w) ==
    /\ WorkersRunning
    /\ pc[w] = "pje_mark"
    /\ seen' = [seen EXCEPT ![w] =
                   Key(cur[w]) \in SeqToSet(processed_uris_this_run)]
    /\ processed_uris_this_run' = MarkSeen(processed_uris_this_run, Key(cur[w]))
    /\ Goto(w, "pje_fetch")
    /\ UNCHANGED <<qvars, lvars, cur, had_reply, thread_length, raised, sent,
                   ngen, tmp, ghost, botReplied, auxvars>>

\* get_post_thread, the thread depth check and the duplicate reply check
PJEFetch(w) ==
    /\ WorkersRunning
    /\ pc[w] = "pje_fetch"
    /\ \E r \in FetchOutcomes :
         LET p == Post(cur[w])
             n == get_thread_length(p, r)
         IN  /\ NoteRaise(w, r)
             /\ CASE r = "raise" ->
                      Goto(w, OnException(w))
                      /\ UNCHANGED <<thread_length, had_reply>>
                 [] r = "notfound" ->
                      Goto(w, Return(w))
                      /\ UNCHANGED <<thread_length, had_reply>>
                 [] OTHER ->
                      /\ thread_length' = [thread_length EXCEPT ![w] = n]
                      /\ had_reply' =
                           [had_reply EXCEPT ![w] = p \in botReplied]
                      /\ IF OverLimit(n)
                           THEN Goto(w, IF parent_of(p) # "none"
                                          THEN "pje_parent" ELSE "pje_canned")
                           ELSE Goto(w, IF p \in botReplied
                                          THEN Return(w) ELSE "pm_mark")
    /\ UNCHANGED <<processed_uris_this_run, qvars, lvars, cur, seen,
                   sent, ngen, tmp, ghost, botReplied, auxvars>>

\* the parent fetched by get_posts is the bot's canned message
ParentIsCanned(p) == parent_of(p) = "canned"

\* get_posts on the immediate parent: stop if it is the canned message;
\* an exception or a response without exactly one post falls through
DepthParent(t, here, canned) ==
    /\ Alive(t)
    /\ pc[t] = here
    /\ \E r \in {"one", "empty", "raise"} :
         /\ NoteRaise(t, r)
         /\ IF r = "one" /\ ParentIsCanned(Post(cur[t]))
              THEN Goto(t, Return(t))
              ELSE Goto(t, canned)
    /\ UNCHANGED <<processed_uris_this_run, qvars, lvars, cur, seen,
                   had_reply, thread_length, sent, ngen, tmp, ghost,
                   botReplied, auxvars>>

\* send_post(text=THREAD_DEPTH_LIMIT_MESSAGE, reply_to=target_post), return
SendCanned(t, here) ==
    /\ Alive(t)
    /\ pc[t] = here
    /\ sent' = [sent EXCEPT ![t] =
                   Append(@, [text |-> "canned", parent |-> Post(cur[t])])]
    /\ \E r \in {"ok", "raise"} :
         /\ NoteRaise(t, r)
         /\ botReplied' = IF r = "ok" THEN botReplied \cup {Post(cur[t])}
                                      ELSE botReplied
    /\ Goto(t, Return(t))
    /\ UNCHANGED <<processed_uris_this_run, qvars, lvars, cur, seen,
                   had_reply, thread_length, ngen, tmp, ghost, auxvars>>

PJEParent(w) == DepthParent(w, "pje_parent", "pje_canned")
PJECanned(w) == SendCanned(w, "pje_canned")

(***************************************************************************)
(* process_mention: called by the catch-up scan and, through the mock      *)
(* notification, by process_jetstream_event.                               *)
(***************************************************************************)
\* reason of the (mock) notification
reason_of(p) == IF is_mention_of_bot(p) THEN "mention" ELSE "reply"

\* with _processed_uris_lock: insert notification.uri, evict the oldest
PMMark(t) ==
    /\ Alive(t)
    /\ pc[t] = "pm_mark"
    /\ processed_uris_this_run' = MarkSeen(processed_uris_this_run, Key(cur[t]))
    /\ Goto(t, "pm_fetch")
    /\ UNCHANGED <<qvars, lvars, locals, tmp, ghost, botReplied, auxvars>>

\* get_post_thread, the thread depth check and the reason-specific checks
PMFetch(t) ==
    /\ Alive(t)
    /\ pc[t] = "pm_fetch"
    /\ \E r \in FetchOutcomes :
         LET p == Post(cur[t])
             n == get_thread_length(p, r)
         IN  /\ NoteRaise(t, r)
             /\ CASE r = "raise" ->
                      Goto(t, OnException(t))
                      /\ UNCHANGED <<thread_length, had_reply>>
                 [] r = "notfound" ->
                      Goto(t, Return(t))
                      /\ UNCHANGED <<thread_length, had_reply>>
                 [] OTHER ->
                      /\ thread_length' = [thread_length EXCEPT ![t] = n]
                      /\ had_reply' =
                           [had_reply EXCEPT ![t] = p \in botReplied]
                      /\ IF OverLimit(n)
                           THEN Goto(t, IF parent_of(p) # "none"
                                          THEN "pm_parent" ELSE "pm_canned")
                           ELSE Goto(t, IF reason_of(p) = "mention"
                                     THEN IF p \in botReplied
                                            THEN Return(t) ELSE "gen"
                                     ELSE IF parent_of(p) # "none"
                                            THEN "pm_reply_parent"
                                            ELSE Return(t))
    /\ UNCHANGED <<processed_uris_this_run, qvars, lvars, cur, seen, sent,
                   ngen, tmp, ghost, botReplied, auxvars>>

PMParent(t) == DepthParent(t, "pm_parent", "pm_canned")
PMCanned(t) == SendCanned(t, "pm_canned")

\* variant: a guard that lets every reply with a parent pass
ParentIsBot_any(p) == parent_of(p) # "none"

\* immediate_parent_post.author.handle == BLUESKY_HANDLE
ParentIsBot(p) == parent_of(p) \in {"bot", "canned"}

\* reply notifications: get_posts on the immediate parent; go on only if the
\* parent is the bot's and the fetched thread view has no reply by the bot
PMReplyParent(t) ==
    /\ Alive(t)
    /\ pc[t] = "pm_reply_parent"
    /\ \E r \in {"one", "empty", "raise"} :
         /\ NoteRaise(t, r)
         /\ IF r = "one" /\ ParentIsBot(Post(cur[t])) /\ ~had_reply[t]
              THEN Goto(t, "gen")
              ELSE Goto(t, Return(t))
    /\ UNCHANGED <<processed_uris_this_run, qvars, lvars, cur, seen,
                   had_reply, thread_length, sent, ngen, tmp, ghost,
                   botReplied, auxvars>>

\* text generation: a reply text, or nothing usable after the retries
Generate(t) ==
    /\ Alive(t)
    /\ pc[t] = "gen"
    /\ ngen' = [ngen EXCEPT ![t] = @ + 1]
    /\ \E r \in {"text", "nothing"} :
         Goto(t, IF r = "text" THEN "send" ELSE Return(t))
    /\ UNCHANGED <<processed_uris_this_run, qvars, lvars, cur, seen,
                   had_reply, thread_length, raised, sent, tmp, ghost,
                   botReplied, auxvars>>

\* send_post of the reply to the triggering post
SendReply(t) ==
    /\ Alive(t)
    /\ pc[t] = "send"
    /\ sent' = [sent EXCEPT ![t] =
                   Append(@, [text |-> "reply", parent |-> Post(cur[t])])]
    /\ \E r \in {"ok", "raise"} :
         /\ NoteRaise(t, r)
         /\ botReplied' = IF r = "ok" THEN botReplied \cup {Post(cur[t])}
                                      ELSE botReplied
    /\ Goto(t, Return(t))
    /\ UNCHANGED <<processed_uris_this_run, qvars, lvars, cur, seen,
                   had_reply, thread_length, ngen, tmp, ghost, auxvars>>

NextCatchUp ==
    \/ \E p \in NotificationPosts : CatchUpNotification(p)
    \/ CatchUpCount
    \/ CatchUpDone

Next ==
    \/ \E p \in PostIds : Enqueue(p)
    \/ BeginShutdown
    \/ PutSentinel
    \/ JoinTerminated
    \/ JoinTimeout
    \/ \E w \in Workers : Dequeue(w)
    \/ \E w \in Workers : PJEMark(w)
    \/ \E w \in Workers : PJEFetch(w)
    \/ \E w \in Workers : PJEParent(w)
    \/ \E w \in Workers : PJECanned(w)
    \/ \E t \in Threads : PMMark(t)
    \/ \E t \in Threads : PMFetch(t)
    \/ \E t \in Threads : PMParent(t)
    \/ \E t \in Threads : PMCanned(t)
    \/ \E t \in Threads : PMReplyParent(t)
    \/ \E t \in Threads : Generate(t)
    \/ \E t \in Threads : SendReply(t)
    \/ \E w \in Workers : CountRead(w)
    \/ \E w \in Workers : CountWrite(w)
    \/ \E w \in Workers : TaskDone(w)

\* listener and workers, from the start of jetstream_listener
Spec == Init /\ [][Next]_vars

\* the same with a queue that has room for one item more, so that accepted
\* events wait on the queue behind one another
InitFifo == InitProcess("listen", QueueMaxSize + 1) /\ InitAux

SpecFifo == InitFifo /\ [][Next]_vars

\* the whole run of main(): catch-up scan, then listener and workers
SpecFull == InitCatchUp /\ [][NextCatchUp \/ Next]_vars

\* process_mention called for one notification after the other, as the
\* catch-up scan does
NextPM ==
    \/ NextCatchUp
    \/ PMMark(MainThread)
    \/ PMFetch(MainThread)
    \/ PMParent(MainThread)
    \/ PMCanned(MainThread)
    \/ PMReplyParent(MainThread)
    \/ Generate(MainThread)
    \/ SendReply(MainThread)

SpecPM == InitCatchUp /\ [][NextPM]_vars

(***************************************************************************)
(* connect_to_jetstream: connect, yield the relevant events, reconnect.    *)
(***************************************************************************)
\* variant: a generator that returns after the sleep
AfterSleep_return == "exited"

\* where the generator goes on after asyncio.sleep: the while True loop
AfterSleep == "connect"

\* websockets.connect(uri): the connection is open, or an exception
WSConnect ==
    /\ ws_pc = "connect"
    /\ \E r \in {"ok", "raise"} :
         IF r = "ok"
           THEN ws_pc' = "receive" /\ ws_loss' = "none"
           ELSE ws_pc' = "on_error" /\ ws_loss' = "error"
    /\ ws_slept' = FALSE
    /\ UNCHANGED <<processed_uris_this_run, mainvars, genvars, latevars, rlvars, csvars,
                   ws_event, ws_yield>>

\* one message of the stream: json.loads, filter, yield
WSReceive(event) ==
    /\ ws_pc = "receive"
    /\ ws_event' = event
    /\ ws_yield' = should_process_jetstream_event(event)
    /\ ws_pc' = "message"
    /\ UNCHANGED <<processed_uris_this_run, mainvars, genvars, latevars, rlvars, csvars,
                   ws_loss, ws_slept>>

\* the message is dealt with: the iteration asks for the next one
WSNextMessage ==
    /\ ws_pc = "message"
    /\ ws_event' = NoEvent
    /\ ws_yield' = FALSE
    /\ ws_pc' = "receive"
    /\ UNCHANGED <<processed_uris_this_run, mainvars, genvars, latevars, rlvars, csvars,
                   ws_loss, ws_slept>>

\* the connection ends: the iteration over the websocket ends normally on a
\* graceful close and the while loop goes round at once; ConnectionClosed
\* and any other exception are caught by the two except clauses
WSLoss(how) ==
    /\ ws_pc = "receive"
    /\ ws_loss' = how
    /\ ws_slept' = FALSE
    /\ ws_pc' = CASE how = "graceful" -> "connect"
                  [] how = "closed" -> "sleep"
                  [] how = "error" -> "on_error"
    /\ UNCHANGED <<processed_uris_this_run, mainvars, genvars, latevars, rlvars, csvars,
                   ws_event, ws_yield>>

\* except Exception: log, send_developer_dm if the message names a
\* connection or a timeout (it goes through wait_if_needed_bluesky)
WSOnError ==
    /\ ws_pc = "on_error"
    /\ \E dm \in BOOLEAN :
         rate_limiter' = IF dm
                           THEN [rate_limiter EXCEPT !.last_bluesky_call = now]
                           ELSE rate_limiter
    /\ ws_pc' = "sleep"
    /\ UNCHANGED <<processed_uris_this_run, mainvars, genvars, latevars, csvars, now, rl_pc,
                   rl_svc, rl_until, rl_prev, rl_last, ws_event, ws_yield,
                   ws_loss, ws_slept>>

\* await asyncio.sleep(JETSTREAM_RECONNECT_DELAY) is over
WSSleepDone ==
    /\ ws_pc = "sleep"
    /\ ws_slept' = TRUE
    /\ ws_pc' = AfterSleep
    /\ UNCHANGED <<processed_uris_this_run, mainvars, genvars, latevars, rlvars, csvars,
                   ws_event, ws_yield, ws_loss>>

\* the steps the generator takes by itself
WSStep == WSConnect \/ WSNextMessage \/ WSOnError \/ WSSleepDone

NextStream ==
    \/ WSConnect
    \/ \E event \in Events : WSReceive(event)
    \/ WSNextMessage
    \/ \E how \in {"graceful", "closed", "error"} : WSLoss(how)
    \/ WSOnError
    \/ WSSleepDone

SpecStream == Init /\ [][NextStream]_vars

\* the event loop keeps running the generator
SpecStreamFair == SpecStream /\ WF_vars(WSStep)

(***************************************************************************)
(* The generation part of process_mention: the retry loop of the text      *)
(* model, generate_image_with_imagen3 or generate_video_with_veo2 when the *)
(* text model asked for media, and the decision to post.                   *)
(***************************************************************************)
\* a response of the text model is a sequence of tokens: words and the two
\* markers
Responses ==
    UNION {[1..n -> {"w", "VIDEO_PROMPT:", "IMAGE_PROMPT:"}] : n \in 0..MaxTokens}

\* position of the first occurrence of a token, 0 when there is none
IndexOf(str, token) ==
    IF \E i \in 1..Len(str) : str[i] = token
      THEN CHOOSE i \in 1..Len(str) :
              str[i] = token /\ \A j \in 1..(i - 1) : str[j] # token
      ELSE 0

\* variant: the video branch leaves an image directive as well
ParseResponse_both(str) ==
    LET v == IndexOf(str, "VIDEO_PROMPT:")
    IN  [gemini_response_text |-> SubSeq(str, 1, v - 1),
         video_prompt |-> SubSeq(str, v + 1, Len(str)),
         image_prompt_for_imagen |-> SubSeq(str, v + 1, Len(str))]

\* the parsing of full_text_response: split at the first video marker, else
\* at the first image marker, else text only; None and the empty string are
\* both the empty sequence
ParseResponse(str) ==
    LET v == IndexOf(str, "VIDEO_PROMPT:")
        m == IndexOf(str, "IMAGE_PROMPT:")
    IN  IF v > 0
          THEN [gemini_response_text |-> SubSeq(str, 1, v - 1),
                video_prompt |-> SubSeq(str, v + 1, Len(str)),
                image_prompt_for_imagen |-> <<>>]
          ELSE IF m > 0
            THEN [gemini_response_text |-> SubSeq(str, 1, m - 1),
                  video_prompt |-> <<>>,
                  image_prompt_for_imagen |-> SubSeq(str, m + 1, Len(str))]
            ELSE [gemini_response_text |-> str,
                  video_prompt |-> <<>>,
                  image_prompt_for_imagen |-> <<>>]

\* if gemini_response_text or image_prompt_for_imagen or video_prompt
Usable(d) ==
    \/ d.gemini_response_text # <<>>
    \/ d.image_prompt_for_imagen # <<>>
    \/ d.video_prompt # <<>>

\* if video_prompt: ... elif image_prompt_for_imagen: ...
SelectGenerator(d) ==
    IF d.video_prompt # <<>> THEN "video"
    ELSE IF d.image_prompt_for_imagen # <<>> THEN "image"
    ELSE "none"

\* what an attempt of the text model can give: a response object with its
\* content and prompt_feedback, a response whose handling raises ValueError,
\* or an exception raised by generate_content itself
TextOutcomes ==
    {[how |-> "response", content |-> c, feedback |-> f] :
        c \in Responses, f \in {"no_feedback", "clear"}}
    \cup {[how |-> h, content |-> <<>>, feedback |-> f] :
        h \in {"response", "response_ValueError"},
        f \in {"no_feedback", "clear", "blocked"}}
    \cup {[how |-> h, content |-> <<>>, feedback |-> "none"] :
        h \in {"ValueError", "Exception"}}

\* the entry of the trace for an attempt with outcome o
TextEntry(o) ==
    CASE o.feedback = "blocked" -> "blocked"
      [] o.how = "response" /\ Usable(ParseResponse(o.content)) -> "usable"
      [] o.how = "response" -> "empty"
      [] OTHER -> "error"

\* variant: a loop that runs one iteration more
InRange_inclusive(i, n) == i <= n

\* for attempt in range(n)
InRange(i, n) == i < n

\* attempt < MAX_GEMINI_RETRIES - 1, the condition of the sleep
SleepBeforeRetry(i) == i < MAX_GEMINI_RETRIES - 1

\* variant: a policy rejection that is retried like a technical failure
AfterPolicyRejected_retry == "media_sleep"

\* where the pipeline goes on after a media attempt rejected by policy
AfterPolicyRejected == "post_check"

\* the except ValueError clause: return if the response object at hand
\* reports a block_reason; a response object without prompt_feedback
\* raises AttributeError, which ends process_mention in its outer except
ValueErrorReturns(obj) == obj \in {"blocked", "no_feedback"}

MaxMediaRetries(kind) ==
    IF kind = "video" THEN MAX_VIDEO_GENERATION_RETRIES
                      ELSE MAX_IMAGE_GENERATION_RETRIES

\* variant: a final attempt that is taken for any attempt
MediaFinalAttempt_any(kind, i) == i >= 0

\* attempt == MAX_..._GENERATION_RETRIES - 1
MediaFinalAttempt(kind, i) == i = MaxMediaRetries(kind) - 1

\* what an attempt of media generation can give, with the verdict of
\* is_content_policy_failure on its error message
MediaOutcomes(kind) ==
    {[what |-> "ok", policy |-> FALSE]}
    \cup {[what |-> w, policy |-> b] :
            w \in {"no_result", "exception"}, b \in BOOLEAN}
    \cup (IF kind = "video"
            THEN {[what |-> "timeout", policy |-> FALSE],
                  [what |-> "config_error", policy |-> TRUE]}
            ELSE {[what |-> "structure", policy |-> FALSE]})

\* PolicyRejected, TechnicalFailure or success
Classify(o) ==
    CASE o.what = "ok" -> "ok"
      [] o.policy -> "policy"
      [] OTHER -> "technical"

\* wait_if_needed_gemini and send_developer_dm leave their timestamp
Stamp(field) == rate_limiter' = [rate_limiter EXCEPT ![field] = now]

GenUnchanged ==
    UNCHANGED <<processed_uris_this_run, mainvars, stvars, csvars, latevars,
                now, rl_pc, rl_svc, rl_until, rl_prev, rl_last>>

\* process_mention reaches the generation step
GenStart ==
    /\ g_pc = "idle"
    /\ g_pc' = "text_call"
    /\ UNCHANGED <<attempt, primary_gemini_response_obj,
                   gemini_response_text, media_prompt, media_result,
                   text_trace, media_trace, g_alerts, g_posted,
                   rate_limiter>>
    /\ UNCHANGED <<reply_text, parsed, outbound, polling>>
    /\ GenUnchanged

\* the failed attempt is over: sleep, next iteration or end of the loop
TextFailed(i) ==
    IF SleepBeforeRetry(i)
      THEN g_pc' = "text_sleep" /\ attempt' = i
      ELSE /\ attempt' = i + 1
           /\ g_pc' = IF InRange(i + 1, MAX_GEMINI_RETRIES)
                        THEN "text_call" ELSE "text_after"

\* one attempt of the retry loop: rate limiter, generate_content, handling
GenTextAttempt ==
    /\ g_pc = "text_call"
    /\ Stamp("last_gemini_call")
    /\ outbound' =
          outbound \o <<"wait_if_needed_gemini", "generate_content">>
    /\ \E o \in TextOutcomes :
         LET obj == IF o.how \in {"response", "response_ValueError"}
                      THEN o.feedback ELSE primary_gemini_response_obj
             d == ParseResponse(o.content)
         IN  /\ text_trace' = Append(text_trace, TextEntry(o))
             /\ primary_gemini_response_obj' = obj
             /\ parsed' = IF o.how = "response"
                            THEN [response |-> o.content,
                                  video_prompt |-> d.video_prompt,
                                  image_prompt_for_imagen |->
                                     d.image_prompt_for_imagen]
                            ELSE parsed
             /\ CASE o.how = "response" /\ Usable(d) ->
                      /\ gemini_response_text' =
                            (d.gemini_response_text # <<>>)
                      /\ media_prompt' = SelectGenerator(d)
                      /\ g_pc' = "media"
                      /\ UNCHANGED attempt
                 [] o.how \in {"response_ValueError", "ValueError"}
                      /\ ValueErrorReturns(obj) ->
                      /\ g_pc' = "returned"
                      /\ UNCHANGED <<attempt, gemini_response_text,
                                     media_prompt>>
                 [] OTHER ->
                      /\ TextFailed(attempt)
                      /\ UNCHANGED <<gemini_response_text, media_prompt>>
    /\ UNCHANGED <<media_result, media_trace, g_alerts, g_posted>>
    /\ UNCHANGED <<reply_text, polling>>
    /\ GenUnchanged

\* time.sleep(GEMINI_RETRY_DELAY_SECONDS), then the next iteration
GenTextSleep ==
    /\ g_pc = "text_sleep"
    /\ text_trace' = Append(text_trace, "sleep")
    /\ attempt' = attempt + 1
    /\ g_pc' = IF InRange(attempt + 1, MAX_GEMINI_RETRIES)
                 THEN "text_call" ELSE "text_after"
    /\ UNCHANGED <<primary_gemini_response_obj, gemini_response_text,
                   media_prompt, media_result, media_trace, g_alerts,
                   g_posted, rate_limiter>>
    /\ UNCHANGED <<reply_text, parsed, outbound, polling>>
    /\ GenUnchanged

\* all attempts failed: logging.error and return
GenTextAfter ==
    /\ g_pc = "text_after"
    /\ g_pc' = "returned"
    /\ UNCHANGED <<attempt, primary_gemini_response_obj,
                   gemini_response_text, media_prompt, media_result,
                   text_trace, media_trace, g_alerts, g_posted,
                   rate_limiter>>
    /\ UNCHANGED <<reply_text, parsed, outbound, polling>>
    /\ GenUnchanged

\* if video_prompt / elif image_prompt_for_imagen: call the generator
GenMedia ==
    /\ g_pc = "media"
    /\ attempt' = 0
    /\ g_pc' = IF media_prompt = "none"
                 THEN "post_check"
                 ELSE IF InRange(0, MaxMediaRetries(media_prompt))
                        THEN "media_call" ELSE "post_check"
    /\ UNCHANGED <<primary_gemini_response_obj, gemini_response_text,
                   media_prompt, media_result, text_trace, media_trace,
                   g_alerts, g_posted, rate_limiter>>
    /\ UNCHANGED <<reply_text, parsed, outbound, polling>>
    /\ GenUnchanged

\* the end of an attempt of a generator with outcome o, after the outbound
\* calls of the step: success and policy rejection return, a technical
\* failure alerts the developer on the final attempt and sleeps otherwise
MediaHandle(o, calls) ==
    CASE Classify(o) = "ok" ->
           /\ media_result' = "bytes"
           /\ media_trace' = Append(media_trace, "ok")
           /\ g_pc' = "post_check"
           /\ outbound' = outbound \o calls
           /\ UNCHANGED <<g_alerts, rate_limiter>>
      [] Classify(o) = "policy" ->
           /\ media_result' = "message"
           /\ media_trace' = Append(media_trace, "policy")
           /\ g_pc' = AfterPolicyRejected
           /\ outbound' = outbound \o calls
           /\ UNCHANGED <<g_alerts, rate_limiter>>
      [] OTHER ->
           IF MediaFinalAttempt(media_prompt, attempt)
             THEN /\ g_alerts' = g_alerts + 1
                  /\ Stamp("last_bluesky_call")
                  /\ media_result' = "None"
                  /\ media_trace' = media_trace \o <<"technical", "alert">>
                  /\ g_pc' = "post_check"
                  /\ outbound' = outbound \o calls
                        \o <<"wait_if_needed_bluesky", "send_message">>
             ELSE /\ media_trace' = Append(media_trace, "technical")
                  /\ g_pc' = "media_sleep"
                  /\ outbound' = outbound \o calls
                  /\ UNCHANGED <<g_alerts, rate_limiter, media_result>>

\* one attempt of generate_image_with_imagen3, or the start of one attempt
\* of generate_video_with_veo2: the configuration and generate_videos, which
\* returns the operation handle
GenMediaAttempt ==
    /\ g_pc = "media_call"
    /\ IF media_prompt = "image"
         THEN /\ \E o \in MediaOutcomes("image") :
                    MediaHandle(o, <<"generate_images">>)
              /\ UNCHANGED polling
         ELSE \/ \E o \in {x \in MediaOutcomes("video") :
                              x.what \in {"exception", "config_error"}} :
                    /\ MediaHandle(o, IF o.what = "exception"
                                        THEN <<"generate_videos">> ELSE <<>>)
                    /\ UNCHANGED polling
              \/ /\ \E d \in BOOLEAN :
                       polling' = [n |-> 0, slept |-> 0, done |-> d]
                 /\ g_pc' = "poll"
                 /\ outbound' = Append(outbound, "generate_videos")
                 /\ UNCHANGED <<media_result, media_trace, g_alerts,
                                rate_limiter>>
    /\ UNCHANGED <<attempt, primary_gemini_response_obj,
                   gemini_response_text, media_prompt, text_trace, g_posted>>
    /\ UNCHANGED <<reply_text, parsed>>
    /\ GenUnchanged

\* variant: a polling loop that runs one iteration more
PollAgain_extra(p) == ~p.done /\ InRange_inclusive(p.n, MAX_POLLING_ATTEMPTS)

\* for _ in range(MAX_POLLING_ATTEMPTS): if operation.done: break
PollAgain(p) == ~p.done /\ InRange(p.n, MAX_POLLING_ATTEMPTS)

\* one iteration of the polling loop: time.sleep(POLL_INTERVAL_SECONDS) and
\* client.operations.get(operation), which may raise
GenPoll ==
    /\ g_pc = "poll"
    /\ PollAgain(polling)
    /\ \E r \in {"done", "pending", "raise"} :
         /\ polling' = [n |-> polling.n + 1,
                        slept |-> polling.slept + POLL_INTERVAL_SECONDS,
                        done |-> (r = "done")]
         /\ IF r = "raise"
              THEN \E o \in {x \in MediaOutcomes("video") :
                                x.what = "exception"} :
                      MediaHandle(o, <<>>)
              ELSE UNCHANGED <<g_pc, media_result, media_trace, g_alerts,
                               rate_limiter, outbound>>
    /\ UNCHANGED <<attempt, primary_gemini_response_obj,
                   gemini_response_text, media_prompt, text_trace, g_posted>>
    /\ UNCHANGED <<reply_text, parsed>>
    /\ GenUnchanged

\* after the polling loop: if not operation.done the attempt timed out;
\* else the result is read and the video is downloaded
GenVideoResult ==
    /\ g_pc = "poll"
    /\ ~PollAgain(polling)
    /\ IF ~polling.done
         THEN MediaHandle([what |-> "timeout", policy |-> FALSE], <<>>)
         ELSE \E o \in {x \in MediaOutcomes("video") :
                           x.what \in {"ok", "no_result", "exception"}} :
                 MediaHandle(o, <<>>)
    /\ UNCHANGED <<attempt, primary_gemini_response_obj,
                   gemini_response_text, media_prompt, text_trace, g_posted>>
    /\ UNCHANGED <<reply_text, parsed, polling>>
    /\ GenUnchanged

\* time.sleep of the retry delay of the generator, then the next iteration;
\* after the last iteration the generator returns None
GenMediaSleep ==
    /\ g_pc = "media_sleep"
    /\ media_trace' = Append(media_trace, "sleep")
    /\ attempt' = attempt + 1
    /\ IF InRange(attempt + 1, MaxMediaRetries(media_prompt))
         THEN g_pc' = "media_call" /\ UNCHANGED media_result
         ELSE g_pc' = "post_check" /\ media_result' = "None"
    /\ UNCHANGED <<primary_gemini_response_obj, gemini_response_text,
                   media_prompt, text_trace, g_alerts, g_posted,
                   rate_limiter>>
    /\ UNCHANGED <<reply_text, parsed, outbound, polling>>
    /\ GenUnchanged

\* variant: the generic note is used even when there is no text
TechnicalFallback_always(parts) == Append(parts, "fallback_note")

\* technical failure: the generic note is appended to the text, if any
TechnicalFallback(parts) ==
    IF parts # <<>> THEN Append(parts, "fallback_note") ELSE parts

\* the failure scenarios after media generation: what the reply text is
\* made of when media was asked for and none was generated
FailureScenario(parts, prompt, result) ==
    IF prompt # "none" /\ result # "bytes"
      THEN IF result = "message"
             THEN Append(parts, "content_policy_message")
             ELSE TechnicalFallback(parts)
      ELSE parts

\* the failure scenarios after media generation: the policy message or the
\* generic note is added to the text; nothing is posted without text and
\* media
GenPostCheck ==
    /\ g_pc = "post_check"
    /\ LET parts == IF gemini_response_text THEN <<"body">> ELSE <<>>
           final == FailureScenario(parts, media_prompt, media_result)
       IN  /\ reply_text' = final
           /\ gemini_response_text' = (final # <<>>)
           /\ g_pc' = IF final # <<>> \/ media_result = "bytes"
                        THEN "post" ELSE "returned"
    /\ UNCHANGED <<attempt, primary_gemini_response_obj, media_prompt,
                   media_result, text_trace, media_trace, g_alerts,
                   g_posted, rate_limiter>>
    /\ UNCHANGED <<parsed, outbound, polling>>
    /\ GenUnchanged

\* the reply chain is sent: the rate limiter and send_post
GenPost ==
    /\ g_pc = "post"
    /\ g_posted' = TRUE
    /\ g_pc' = "returned"
    /\ outbound' = outbound \o <<"wait_if_needed_bluesky", "send_post">>
    /\ UNCHANGED <<attempt, primary_gemini_response_obj,
                   gemini_response_text, media_prompt, media_result,
                   text_trace, media_trace, g_alerts, rate_limiter>>
    /\ UNCHANGED <<reply_text, parsed, polling>>
    /\ GenUnchanged

NextGen ==
    \/ GenStart
    \/ GenTextAttempt
    \/ GenTextSleep
    \/ GenTextAfter
    \/ GenMedia
    \/ GenMediaAttempt
    \/ GenPoll
    \/ GenVideoResult
    \/ GenMediaSleep
    \/ GenPostCheck
    \/ GenPost

SpecGen == Init /\ [][NextGen]_vars

(***************************************************************************)
(* split_text_for_bluesky(text, limit).  A text is a sequence of           *)
(* characters: letters, the full stop and the space.                       *)
(***************************************************************************)
SplitTexts == UNION {[1..n -> {"a", "b", ".", " "}] : n \in 0..MaxSplitLen}

\* \s
IsSpace(c) == c = " "

\* str.strip()
RECURSIVE strip(_)
strip(str) ==
    IF str = <<>> THEN <<>>
    ELSE IF IsSpace(Head(str)) THEN strip(Tail(str))
    ELSE IF IsSpace(str[Len(str)]) THEN strip(SubSeq(str, 1, Len(str) - 1))
    ELSE str

\* the first position from i on that holds no whitespace
RECURSIVE SkipSpaces(_, _)
SkipSpaces(str, i) ==
    IF i <= Len(str) /\ IsSpace(str[i]) THEN SkipSpaces(str, i + 1) ELSE i

\* re.split(r'(?<=[.!?])\s+', text): the pieces between the runs of
\* whitespace that follow a sentence end
RECURSIVE re_split(_, _, _)
re_split(str, i, piece) ==
    IF i > Len(str) THEN <<piece>>
    ELSE IF IsSpace(str[i]) /\ i > 1 /\ str[i - 1] \in {".", "!", "?"}
      THEN <<piece>> \o re_split(str, SkipSpaces(str, i), <<>>)
      ELSE re_split(str, i + 1, Append(piece, str[i]))

\* str.split(): the maximal runs of characters that are not whitespace
RECURSIVE str_split(_, _, _)
str_split(str, i, word) ==
    IF i > Len(str) THEN IF word = <<>> THEN <<>> ELSE <<word>>
    ELSE IF IsSpace(str[i])
      THEN (IF word = <<>> THEN <<>> ELSE <<word>>)
              \o str_split(str, i + 1, <<>>)
      ELSE str_split(str, i + 1, Append(word, str[i]))

\* for word in words: the posts and the word_post the loop ends with
RECURSIVE WordLoop(_, _, _, _, _)
WordLoop(words, k, posts, word_post, limit) ==
    IF k > Len(words) THEN [posts |-> posts, word_post |-> word_post]
    ELSE IF Len(word_post) + Len(words[k]) + 1 > limit
      THEN WordLoop(words, k + 1, Append(posts, strip(word_post)),
                    words[k], limit)
      ELSE WordLoop(words, k + 1, posts, word_post \o <<" ">> \o words[k],
                    limit)

\* a sentence over the limit is split by words
SplitByWords(posts, sentence, limit) ==
    LET r == WordLoop(str_split(sentence, 1, <<>>), 1, posts, <<>>, limit)
    IN  IF r.word_post # <<>> THEN Append(r.posts, strip(r.word_post))
                              ELSE r.posts

\* variant: the sentence takes the place of the post built so far
JoinSentence_overwrite(current_post, sentence) == sentence

\* current_post += f" {sentence}"
JoinSentence(current_post, sentence) ==
    IF current_post # <<>> THEN current_post \o <<" ">> \o sentence
                           ELSE sentence

\* for sentence in sentences: the posts and the current_post it ends with
RECURSIVE SentenceLoop(_, _, _, _, _)
SentenceLoop(sentences, k, posts, current_post, limit) ==
    IF k > Len(sentences)
      THEN [posts |-> posts, current_post |-> current_post]
    ELSE LET sentence == strip(sentences[k])
         IN  IF sentence = <<>>
               THEN SentenceLoop(sentences, k + 1, posts, current_post, limit)
             ELSE IF Len(current_post) + Len(sentence) + 1 > limit
               THEN LET flushed == IF current_post # <<>>
                                     THEN Append(posts, strip(current_post))
                                     ELSE posts
                    IN  IF Len(sentence) > limit
                          THEN SentenceLoop(sentences, k + 1,
                                   SplitByWords(flushed, sentence, limit),
                                   <<>>, limit)
                          ELSE SentenceLoop(sentences, k + 1, flushed,
                                            sentence, limit)
             ELSE SentenceLoop(sentences, k + 1, posts,
                               JoinSentence(current_post, sentence), limit)

split_text_for_bluesky(str, limit) ==
    IF str = <<>> THEN <<>>
    ELSE LET r == SentenceLoop(re_split(str, 1, <<>>), 1, <<>>, <<>>, limit)
             posts == IF r.current_post # <<>>
                        THEN Append(r.posts, strip(r.current_post))
                        ELSE r.posts
         IN  SelectSeq(posts, LAMBDA post : post # <<>>)

\* a call of the function with some text and some limit
InitSplit ==
    /\ InitMain("listen")
    /\ InitCore
    /\ InitLate("split")
    /\ split_text \in SplitTexts
    /\ split_limit \in 1..MaxLimit
    /\ split_posts = <<>>
    /\ split_pc = "called"

\* the function returns its list
Split ==
    /\ split_pc = "called"
    /\ split_posts' = split_text_for_bluesky(split_text, split_limit)
    /\ split_pc' = "returned"
    /\ UNCHANGED <<processed_uris_this_run, mainvars, rlvars, csvars, stvars,
                   genvars, postvars, healthvars, dmvars, morevars, split_text,
                   split_limit>>

SpecSplit == InitSplit /\ [][Split]_vars

(***************************************************************************)
(* The posting part of process_mention: the reply text is split into the   *)
(* reply plan, the media is uploaded for the first segment, and the        *)
(* segments are sent as a chain of replies.                                *)
(***************************************************************************)
\* long enough for a text of three full segments and for a plan of more
\* than MAX_REPLY_THREAD_DEPTH segments
MaxBodyLen ==
    IF 3 * BlueskyLimit > 2 * MAX_REPLY_THREAD_DEPTH + 1
      THEN 3 * BlueskyLimit ELSE 2 * MAX_REPLY_THREAD_DEPTH + 1

\* gemini_response_text.strip(): the texts without whitespace at the ends
Bodies ==
    {t \in UNION {[1..n -> {"a", ".", " "}] : n \in 0..MaxBodyLen} :
        strip(t) = t}

\* variant: the whole list is sent
Plan_all(texts) == texts

\* post_texts[:MAX_REPLY_THREAD_DEPTH]
Plan(texts) ==
    SubSeq(texts, 1, IF Len(texts) < MAX_REPLY_THREAD_DEPTH
                       THEN Len(texts) ELSE MAX_REPLY_THREAD_DEPTH)

\* variant: the first post replies to the root of the thread
InitialParent_root(target) == target.reply

\* initial_parent_ref: the triggering post
InitialParent(target) == target.uri

\* initial_root_ref: post_record.reply.root, or the triggering post
InitialRoot(target) ==
    IF target.reply # NoRef THEN target.reply ELSE InitialParent(target)

\* variant: every segment replies to the triggering post
NextParent_keep(current, response) == current

\* current_parent_ref after a send: the post just created
NextParent(current, response) == response

\* variant: media is attached to every segment
MayAttach_any(i) == TRUE

\* i == 0: only the first post carries the media
MayAttach(i) == i = 0

\* an event reaches the posting part with some text, or with media
InitPost ==
    /\ InitMain("listen")
    /\ InitCore
    /\ InitLate("post")
    /\ post_pc = "split"
    /\ final_response_text \in Bodies
    /\ \E m \in {<<"None", "None">>, <<"small", "image">>,
                  <<"bytes", "image">>, <<"bytes", "video">>} :
          media_data_bytes = m[1] /\ media_type = m[2]
    /\ ~(final_response_text = <<>> /\ media_data_bytes = "None")
    /\ target_post \in {[uri |-> TriggerRef, reply |-> r] :
                           r \in {NoRef, RootRef}}
    /\ post_texts = <<>>
    /\ post_i = 0
    /\ current_parent_ref = NoRef
    /\ current_root_ref = NoRef
    /\ embed_to_post = "None"
    /\ post_log = <<>>

PostUnchanged ==
    UNCHANGED <<processed_uris_this_run, mainvars, stvars, csvars, genvars,
                splitvars, healthvars, dmvars, morevars, final_response_text,
                media_data_bytes, media_type, target_post, now, rl_pc,
                rl_svc, rl_until, rl_prev, rl_last>>

\* an entry of post_log
LogEntry(op, i, str, ok) ==
    [op |-> op, i |-> i, text |-> str, root |-> current_root_ref,
     parent |-> current_parent_ref, embed |-> embed_to_post, ok |-> ok]

\* split_text_for_bluesky(final_response_text); one empty post if there is
\* media and no text; the initial root and parent of the reply thread
PostSplit ==
    /\ post_pc = "split"
    /\ LET texts == split_text_for_bluesky(final_response_text, BlueskyLimit)
       IN  IF texts = <<>> /\ media_data_bytes = "None"
             THEN /\ post_pc' = "returned"
                  /\ UNCHANGED <<post_texts, current_parent_ref,
                                 current_root_ref>>
             ELSE /\ post_texts' = IF texts = <<>> THEN <<<<>>>> ELSE texts
                  /\ current_parent_ref' = InitialParent(target_post)
                  /\ current_root_ref' = InitialRoot(target_post)
                  /\ post_pc' = "loop"
    /\ UNCHANGED <<post_i, embed_to_post, post_log, rate_limiter>>
    /\ PostUnchanged

\* for i, post_text in enumerate(post_texts[:MAX_REPLY_THREAD_DEPTH]):
\* embed_to_post = None, and the media goes with the first post only
PostLoop ==
    /\ post_pc = "loop"
    /\ embed_to_post' = "None"
    /\ post_pc' = IF post_i >= Len(Plan(post_texts)) THEN "returned"
                  ELSE IF MayAttach(post_i) /\ media_data_bytes # "None"
                         THEN "upload" ELSE "send"
    /\ UNCHANGED <<post_texts, post_i, current_parent_ref, current_root_ref,
                   post_log, rate_limiter>>
    /\ PostUnchanged

\* upload_blob of the image or video, unless the data is under 1000 bytes;
\* without a blob in the response, or after an exception, there is no embed
PostUpload ==
    /\ post_pc = "upload"
    /\ IF media_data_bytes = "small"
         THEN UNCHANGED <<embed_to_post, post_log>>
         ELSE \E r \in {"blob", "no_blob", "raise"} :
                /\ embed_to_post' = IF r = "blob" THEN media_type ELSE "None"
                /\ post_log' = Append(post_log,
                                   LogEntry("upload_blob", post_i, <<>>,
                                            r = "blob"))
    /\ post_pc' = "send"
    /\ UNCHANGED <<post_texts, post_i, current_parent_ref, current_root_ref,
                   rate_limiter>>
    /\ PostUnchanged

\* wait_if_needed_bluesky and send_post; the post created is the parent of
\* the next one; after an exception the loop is left
PostSend ==
    /\ post_pc = "send"
    /\ Stamp("last_bluesky_call")
    /\ \E r \in {"ok", "AtProtocolError", "Exception"} :
         /\ post_log' = Append(post_log,
                            LogEntry("send_post", post_i,
                                     post_texts[post_i + 1], r = "ok"))
         /\ IF r = "ok"
              THEN /\ current_parent_ref' =
                         NextParent(current_parent_ref, ResponseRef(post_i))
                   /\ post_i' = post_i + 1
                   /\ post_pc' = "loop"
              ELSE /\ post_pc' = "returned"
                   /\ UNCHANGED <<current_parent_ref, post_i>>
    /\ UNCHANGED <<post_texts, current_root_ref, embed_to_post>>
    /\ PostUnchanged

NextPost ==
    \/ PostSplit
    \/ PostLoop
    \/ PostUpload
    \/ PostSend

SpecPost == InitPost /\ [][NextPost]_vars

(***************************************************************************)
(* log_jetstream_stats: one evaluation of the health checks on a copy of   *)
(* the statistics.                                                         *)
(***************************************************************************)
\* stats = jetstream_stats.copy() with the queue size of this instant: the
\* statistics are drawn around the thresholds of the checks, with no more
\* errors than events
InitHealth ==
    /\ InitMain("listen")
    /\ InitCore
    /\ InitLate("health")
    /\ stats \in [events_received : {0, 50, 99, 100, 101, 200},
                  processing_errors : {0, 5, 10, 11, 20, 21},
                  events_dropped : {0, 5, 6, 10, 11},
                  queue_size : {0, 800, 801, 950, 951, 1000}]
    /\ stats.processing_errors <= stats.events_received
    /\ health_pc = "queue"
    /\ health_alerts = <<>>

\* send_developer_dm(msg, error_type) when the condition holds
HealthCheck(next, condition, error_type) ==
    /\ health_pc' = next
    /\ IF condition
         THEN /\ health_alerts' = Append(health_alerts, error_type)
              /\ Stamp("last_bluesky_call")
         ELSE UNCHANGED <<health_alerts, rate_limiter>>
    /\ UNCHANGED <<processed_uris_this_run, mainvars, stvars, csvars, genvars,
                   splitvars, postvars, dmvars, morevars, stats, now, rl_pc, rl_svc,
                   rl_until, rl_prev, rl_last>>

\* queue_usage_percent = (queue_size / 1000.0) * 100: over 80 is logged,
\* over 95 is alerted
HealthQueue ==
    /\ health_pc = "queue"
    /\ HealthCheck("errors",
                   stats.queue_size * 100 > 80 * 1000
                       /\ stats.queue_size * 100 > 95 * 1000,
                   "QUEUE WARNING")

\* if events_received > 100: error_rate = errors / received * 100 > 10
HealthErrors ==
    /\ health_pc = "errors"
    /\ HealthCheck("drops",
                   stats.events_received > 100
                       /\ stats.processing_errors * 100
                             > 10 * stats.events_received,
                   "ERROR RATE WARNING")

\* if events_dropped > 0 and events_received > 0: drop_rate > 5
HealthDrops ==
    /\ health_pc = "drops"
    /\ HealthCheck("done",
                   stats.events_dropped > 0 /\ stats.events_received > 0
                       /\ stats.events_dropped * 100
                             > 5 * stats.events_received,
                   "DROP RATE WARNING")

NextHealth ==
    \/ HealthQueue
    \/ HealthErrors
    \/ HealthDrops

SpecHealth == InitHealth /\ [][NextHealth]_vars

(***************************************************************************)
(* send_developer_dm and its callers.                                      *)
(***************************************************************************)
\* the error_type of every call of send_developer_dm in the program
AlertKinds ==
    {"QUEUE WARNING", "ERROR RATE WARNING", "DROP RATE WARNING",
     "CONNECTION WARNING", "VIDEO GENERATION TIMEOUT",
     "VIDEO GENERATION FAILURE", "VIDEO GENERATION ERROR",
     "IMAGE GENERATION FAILURE", "IMAGE GENERATION STRUCTURE ERROR",
     "IMAGE GENERATION ERROR", "STARTUP NOTIFICATION", "CRITICAL ERROR"}

\* variant: every caller allows the public fallback
allow_public_fallback_any(error_type) == TRUE

\* the allow_public_fallback argument each caller passes: True only in
\* log_critical_error
allow_public_fallback(error_type) == error_type = "CRITICAL ERROR"

\* a caller calls send_developer_dm(error_message, error_type, ...)
DMCall(error_type) ==
    /\ dm_pc = "idle"
    /\ Len(dm_log) < MaxAlerts
    /\ dm_alert' = error_type
    /\ dm_pc' = "dm"
    /\ UNCHANGED <<dm_log, rate_limiter>>
    /\ UNCHANGED <<processed_uris_this_run, mainvars, stvars, csvars, genvars,
                   splitvars, postvars, healthvars, morevars, now, rl_pc, rl_svc,
                   rl_until, rl_prev, rl_last>>

\* what the call has led to
DMEntry(dm, public) == [error_type |-> dm_alert, dm |-> dm, public |-> public]

\* without a client the function returns at once; else the rate limiter and
\* the send through the chat proxy; when that fails the public mention is
\* tried if the caller allowed it
DMSend ==
    /\ dm_pc = "dm"
    /\ \E r \in IF bsky_client = "None"
                 THEN {"no_client"}
                 ELSE {"outer_error", "sent", "dm_error"} :
         /\ IF r = "no_client" THEN UNCHANGED rate_limiter
                               ELSE Stamp("last_bluesky_call")
         /\ CASE r \in {"no_client", "outer_error"} ->
                   /\ dm_log' = Append(dm_log, DMEntry(r, "none"))
                   /\ dm_pc' = "idle"
              [] r = "sent" ->
                   /\ dm_log' = Append(dm_log, DMEntry("sent", "none"))
                   /\ dm_pc' = "idle"
              [] OTHER ->
                   IF allow_public_fallback(dm_alert)
                     THEN dm_pc' = "fallback" /\ UNCHANGED dm_log
                     ELSE /\ dm_log' =
                               Append(dm_log, DMEntry("failed", "none"))
                          /\ dm_pc' = "idle"
    /\ UNCHANGED dm_alert
    /\ UNCHANGED <<processed_uris_this_run, mainvars, stvars, csvars, genvars,
                   splitvars, postvars, healthvars, morevars, now, rl_pc, rl_svc,
                   rl_until, rl_prev, rl_last>>

\* bsky_client.send_post of the mention of the developer
DMFallback ==
    /\ dm_pc = "fallback"
    /\ \E r \in {"posted", "failed"} :
         dm_log' = Append(dm_log, DMEntry("failed", r))
    /\ dm_pc' = "idle"
    /\ UNCHANGED <<dm_alert, rate_limiter>>
    /\ UNCHANGED <<processed_uris_this_run, mainvars, stvars, csvars, genvars,
                   splitvars, postvars, healthvars, morevars, now, rl_pc, rl_svc,
                   rl_until, rl_prev, rl_last>>

NextAlert ==
    \/ \E error_type \in AlertKinds : DMCall(error_type)
    \/ DMSend
    \/ DMFallback

SpecAlert == Init /\ [][NextAlert]_vars

(***************************************************************************)
(* is_content_policy_failure(error_msg, response_obj, prompt).  A message   *)
(* and a prompt are sequences of words; a keyword is a sequence of words   *)
(* and is in a text when it is a contiguous part of it.                    *)
(***************************************************************************)
policy_keywords ==
    {<<"content", "policy">>, <<"safety">>, <<"blocked">>, <<"filtered">>,
     <<"person_generation">>, <<"inappropriate">>, <<"violates">>,
     <<"prohibited">>, <<"restricted">>, <<"harmful">>, <<"unsafe">>,
     <<"policy", "violation">>}

people_terms ==
    {<<"person">>, <<"people">>, <<"human">>, <<"man">>, <<"woman">>,
     <<"child">>, <<"individual">>, <<"character">>}

\* variant: a comparison that does not fold the case
lower_words_keep(str) == str

\* str.lower() on a sequence of words
lower_words(str) ==
    [i \in 1..Len(str) |->
        CASE str[i] = "Safety" -> "safety"
          [] str[i] = "No" -> "no"
          [] str[i] = "Person" -> "person"
          [] OTHER -> str[i]]

is_content_policy_failure(error_msg, response_obj, prompt) ==
    IF error_msg = <<>> THEN FALSE
    ELSE LET error_lower == lower_words(error_msg)
         IN  \/ \E keyword \in policy_keywords : Contains(keyword, error_lower)
             \/ /\ prompt # <<>>
                /\ \/ Contains(<<"no", "videos">>, error_lower)
                   \/ Contains(<<"no", "images">>, error_lower)
                /\ \E term \in people_terms :
                      Contains(term, lower_words(prompt))
             \/ response_obj = "blocked"

\* the arguments of a call: any message of up to MaxWords words, a response
\* object or None, a prompt or None
InitClassify ==
    /\ InitMain("listen")
    /\ InitCore
    /\ InitLate("classify")
    /\ cls_args \in
          [error_msg : UNION {[1..n -> {"Safety", "timeout", "No", "images"}] :
                                 n \in 0..MaxWords},
           response_obj : {"None", "no_feedback", "clear", "blocked"},
           prompt : {<<>>, <<"a", "Person">>, <<"a", "cat">>}]
    /\ cls_result = "unset"

\* the call returns
ClassifyCall ==
    /\ cls_result = "unset"
    /\ cls_result' =
          IF is_content_policy_failure(cls_args.error_msg,
                                       cls_args.response_obj, cls_args.prompt)
            THEN "True" ELSE "False"
    /\ UNCHANGED <<processed_uris_this_run, mainvars, rlvars, csvars, stvars,
                   genvars, splitvars, postvars, healthvars, dmvars,
                   cls_args, start_pc, bsky_client, genai_client, started>>

SpecClassify == InitClassify /\ [][ClassifyCall]_vars

(***************************************************************************)
(* The start of the process: validate_environment_variables at import,     *)
(* then main().                                                            *)
(***************************************************************************)
InitStartup ==
    /\ InitMain("start")
    /\ InitCore
    /\ InitLate("start")
    /\ start_pc = "validate"
    /\ bsky_client = "None"
    /\ genai_client = "None"
    /\ started = {}

StartUnchanged ==
    UNCHANGED <<processed_uris_this_run, qvars, idx, joined, notifs, pc,
                locals, tmp, ghost, botReplied, rlvars, csvars, stvars,
                genvars, splitvars, postvars, healthvars, dm_log, cls_args,
                cls_result>>

\* log_critical_error or send_startup_notification calls send_developer_dm
AlertCall(call, error_type) ==
    IF call THEN dm_pc' = "dm" /\ dm_alert' = error_type
            ELSE UNCHANGED <<dm_pc, dm_alert>>

\* if not validate_environment_variables(): exit(1)
StartValidate ==
    /\ start_pc = "validate"
    /\ \E missing \in BOOLEAN :
          start_pc' = IF missing THEN "exited" ELSE "bluesky"
    /\ UNCHANGED <<lpc, bsky_client, genai_client, started, dm_pc, dm_alert>>
    /\ StartUnchanged

\* bsky_client = initialize_bluesky_client(): None after a failed login
StartBluesky ==
    /\ start_pc = "bluesky"
    /\ \E r \in {"client", "None"} : bsky_client' = r
    /\ start_pc' = "genai"
    /\ UNCHANGED <<lpc, genai_client, started, dm_pc, dm_alert>>
    /\ StartUnchanged

\* genai_client = initialize_genai_services(): after an exception
\* log_critical_error is called and None is returned
StartGenai ==
    /\ start_pc = "genai"
    /\ \E r \in {"client", "None"} :
          /\ genai_client' = r
          /\ AlertCall(r = "None", "CRITICAL ERROR")
    /\ start_pc' = "check"
    /\ UNCHANGED <<lpc, bsky_client, started>>
    /\ StartUnchanged

\* if bsky_client and genai_client: the startup notification; else
\* log_critical_error for a missing Bluesky client
StartCheck ==
    /\ start_pc = "check"
    /\ dm_pc = "idle"
    /\ IF bsky_client # "None" /\ genai_client # "None"
         THEN /\ AlertCall(TRUE, "STARTUP NOTIFICATION")
              /\ start_pc' = "run"
         ELSE /\ AlertCall(bsky_client = "None", "CRITICAL ERROR")
              /\ start_pc' = "check_genai"
    /\ UNCHANGED <<lpc, bsky_client, genai_client, started>>
    /\ StartUnchanged

\* log_critical_error for a missing GenAI client; main() returns
StartCheckGenai ==
    /\ start_pc = "check_genai"
    /\ dm_pc = "idle"
    /\ AlertCall(genai_client = "None", "CRITICAL ERROR")
    /\ start_pc' = "ended"
    /\ UNCHANGED <<lpc, bsky_client, genai_client, started>>
    /\ StartUnchanged

\* catch_up_missed_notifications is called; the automatic posting thread
\* and main_bot_loop with the listener and the workers come after it
StartRun ==
    /\ start_pc = "run"
    /\ dm_pc = "idle"
    /\ started' = Started
    /\ start_pc' = "running"
    /\ lpc' = "catchup"
    /\ UNCHANGED <<bsky_client, genai_client, dm_pc, dm_alert>>
    /\ StartUnchanged

NextStartup ==
    \/ StartValidate
    \/ StartBluesky
    \/ StartGenai
    \/ StartCheck
    \/ StartCheckGenai
    \/ StartRun
    \/ DMSend
    \/ DMFallback
    \/ NextPM

\* the start of the process, followed by the catch-up scan
SpecStartup == InitStartup /\ [][NextStartup]_vars

(***************************************************************************)
(* RateLimiter.wait_if_needed_gemini / wait_if_needed_bluesky, called by   *)
(* any thread of the process.  The class has no lock; each read of the     *)
(* clock, the sleep and the store of the timestamp are separate steps.     *)
(***************************************************************************)
min_interval(s) ==
    IF s = "gemini" THEN gemini_min_interval ELSE bluesky_min_interval

last_call(s) ==
    IF s = "gemini" THEN rate_limiter.last_gemini_call
                    ELSE rate_limiter.last_bluesky_call

\* time_since_last < min_interval
MustSleep(time_since_last, s) == time_since_last < min_interval(s)

\* a thread enters the wait function of service s
RLCall(t, s) ==
    /\ rl_pc[t] = "idle"
    /\ rl_svc' = [rl_svc EXCEPT ![t] = s]
    /\ rl_pc' = [rl_pc EXCEPT ![t] = "read"]
    /\ UNCHANGED <<processed_uris_this_run, mainvars, genvars, latevars, stvars, csvars, now,
                   rate_limiter, rl_until, rl_prev, rl_last>>

\* current_time = time.time(); time_since_last = current_time - last call;
\* sleep_time = min_interval - time_since_last
RLRead(t) ==
    /\ rl_pc[t] = "read"
    /\ LET s == rl_svc[t]
           time_since_last == now - last_call(s)
       IN  IF MustSleep(time_since_last, s)
             THEN /\ rl_until' = [rl_until EXCEPT ![t] =
                                     now + (min_interval(s) - time_since_last)]
                  /\ rl_pc' = [rl_pc EXCEPT ![t] = "sleep"]
             ELSE /\ rl_pc' = [rl_pc EXCEPT ![t] = "store"]
                  /\ UNCHANGED rl_until
    /\ UNCHANGED <<processed_uris_this_run, mainvars, genvars, latevars, stvars, csvars, now,
                   rate_limiter, rl_svc, rl_prev, rl_last>>

\* time.sleep(sleep_time) returns once the time has passed
RLWake(t) ==
    /\ rl_pc[t] = "sleep"
    /\ now >= rl_until[t]
    /\ rl_pc' = [rl_pc EXCEPT ![t] = "store"]
    /\ rl_until' = [rl_until EXCEPT ![t] = 0]
    /\ UNCHANGED <<processed_uris_this_run, mainvars, genvars, latevars, stvars, csvars, now,
                   rate_limiter, rl_svc, rl_prev, rl_last>>

\* self.last_<service>_call = time.time(), return
RLStore(t) ==
    /\ rl_pc[t] = "store"
    /\ LET s == rl_svc[t]
       IN  /\ rate_limiter' =
                IF s = "gemini"
                  THEN [rate_limiter EXCEPT !.last_gemini_call = now]
                  ELSE [rate_limiter EXCEPT !.last_bluesky_call = now]
           /\ rl_prev' = [rl_prev EXCEPT ![s] = rl_last[s]]
           /\ rl_last' = [rl_last EXCEPT ![s] = now]
    /\ rl_pc' = [rl_pc EXCEPT ![t] = "idle"]
    /\ UNCHANGED <<processed_uris_this_run, mainvars, genvars, latevars, stvars, csvars, now, rl_svc,
                   rl_until>>

\* the clock advances
Tick ==
    /\ now < MaxTime
    /\ now' = now + 1
    /\ UNCHANGED <<processed_uris_this_run, mainvars, genvars, latevars, stvars, csvars, rate_limiter,
                   rl_pc, rl_svc, rl_until, rl_prev, rl_last>>

NextRL ==
    \/ \E t \in Workers, s \in Services : RLCall(t, s)
    \/ \E t \in Workers : RLRead(t)
    \/ \E t \in Workers : RLWake(t)
    \/ \E t \in Workers : RLStore(t)
    \/ Tick

\* worker threads calling the wait functions
SpecRL == Init /\ [][NextRL]_vars

(***************************************************************************)
(* The section guarded by _processed_uris_lock in process_mention,         *)
(* process_jetstream_event and check_and_process_dm_commands, statement by *)
(* statement, entered by any thread with any key.                          *)
(***************************************************************************)
\* with _processed_uris_lock: (acquire)
CSAcquire(t, k) ==
    /\ cs_pc[t] = "idle"
    /\ lock_holder = NoThread
    /\ lock_holder' = t
    /\ cs_key' = [cs_key EXCEPT ![t] = k]
    /\ cs_before' = [cs_before EXCEPT ![t] = processed_uris_this_run]
    /\ cs_pc' = [cs_pc EXCEPT ![t] = "setitem"]
    /\ UNCHANGED <<processed_uris_this_run, mainvars, genvars, latevars, stvars, rlvars>>

\* processed_uris_this_run[key] = None
CSSetItem(t) ==
    /\ cs_pc[t] = "setitem"
    /\ processed_uris_this_run' = dict_setitem(processed_uris_this_run, cs_key[t])
    /\ cs_pc' = [cs_pc EXCEPT ![t] = "evict"]
    /\ UNCHANGED <<mainvars, genvars, latevars, stvars, rlvars, lock_holder, cs_key, cs_before>>

\* if len(processed_uris_this_run) > MAX_PROCESSED_URIS_CACHE: popitem(last=False)
CSEvict(t) ==
    /\ cs_pc[t] = "evict"
    /\ processed_uris_this_run' =
          IF Len(processed_uris_this_run) > MaxCache
            THEN popitem_first(processed_uris_this_run)
            ELSE processed_uris_this_run
    /\ cs_pc' = [cs_pc EXCEPT ![t] = "release"]
    /\ UNCHANGED <<mainvars, genvars, latevars, stvars, rlvars, lock_holder, cs_key, cs_before>>

\* leaving the with block (release)
CSRelease(t) ==
    /\ cs_pc[t] = "release"
    /\ lock_holder' = NoThread
    /\ cs_pc' = [cs_pc EXCEPT ![t] = "idle"]
    /\ cs_key' = [cs_key EXCEPT ![t] = "none"]
    /\ cs_before' = [cs_before EXCEPT ![t] = <<>>]
    /\ UNCHANGED <<processed_uris_this_run, mainvars, genvars, latevars, stvars, rlvars>>

NextCache ==
    \/ \E t \in Threads, k \in CacheKeys : CSAcquire(t, k)
    \/ \E t \in Threads : CSSetItem(t)
    \/ \E t \in Threads : CSEvict(t)
    \/ \E t \in Threads : CSRelease(t)

\* threads inserting keys into the dedup cache
SpecCache == Init /\ [][NextCache]_vars

(***************************************************************************)
(* Properties.                                                             *)
(***************************************************************************)
PipelinePcs == {"pje_fetch", "pje_parent", "pje_canned", "pm_mark",
                "pm_fetch", "pm_parent", "pm_canned", "pm_reply_parent",
                "gen", "send"}

\* the thread is past the dedup step of process_jetstream_event
InPipeline(t) == pc[t] \in PipelinePcs

\* process_jetstream_event has just returned to the worker
Returned(t) == pc[t] = "count_read"

QueueCount(n) ==
    Cardinality({i \in 1..Len(jetstream_event_queue) :
                    jetstream_event_queue[i][1] = n})

CannedPost(p) == [text |-> "canned", parent |-> p]

\* C1: of two workers handling events for the same post identity at most
\* one is past the dedup step, in the reply pipeline
C1_OnePastDedup ==
    \A w1, w2 \in Workers :
        (w1 # w2 /\ InPipeline(w1) /\ InPipeline(w2))
            => Key(cur[w1]) # Key(cur[w2])

\* C2: an event whose identity was already in the dedup cache when it was
\* checked is not run through the reply pipeline
C2_InsertedNeverReprocessed ==
    \A w \in Workers : InPipeline(w) => ~seen[w]

\* C3: when an insert into the dedup cache is complete the cache holds at
\* most the maximum; a key that was present leaves the cache as it was, a new
\* key is appended, and if the cache was full exactly the oldest key is gone
C3_CacheBoundedFifo ==
    /\ lock_holder = NoThread => Len(processed_uris_this_run) <= MaxCache
    /\ \A t \in Threads :
         cs_pc[t] = "release" =>
            LET b == cs_before[t]
                k == cs_key[t]
                c == processed_uris_this_run
            IN  /\ Len(c) <= MaxCache
                /\ k \in SeqToSet(b) => c = b
                /\ (k \notin SeqToSet(b) /\ Len(b) < MaxCache)
                      => c = Append(b, k)
                /\ (k \notin SeqToSet(b) /\ Len(b) >= MaxCache)
                      => c = Append(Tail(b), k)

\* an insert of a new key into a full cache is complete
C3_Witness ==
    \E t \in Threads :
        /\ cs_pc[t] = "release"
        /\ Len(cs_before[t]) = MaxCache
        /\ cs_key[t] \notin SeqToSet(cs_before[t])

\* C4: enqueue on a queue that holds its full capacity returns false, adds
\* exactly 1 to the drop counter, leaves the queue and the received counter
\* unchanged and lets the listener go on
C4_FullQueueDrop ==
    [][(arrivals' = arrivals + 1
          /\ Len(jetstream_event_queue) = maxsize)
        => /\ ret' = FALSE
           /\ jetstream_stats'.events_dropped =
                 jetstream_stats.events_dropped + 1
           /\ jetstream_stats'.events_received =
                 jetstream_stats.events_received
           /\ jetstream_event_queue' = jetstream_event_queue
           /\ lpc' = "listen"]_vars

\* an event has just been dropped on a full queue
C4_Witness ==
    /\ jetstream_stats.events_dropped = 1
    /\ ret = FALSE
    /\ Len(jetstream_event_queue) = maxsize
    /\ arrivals = jetstream_stats.events_received + 1

\* C5: every accepted event is either still on the queue or was handed to
\* process_jetstream_event exactly once, and is held by at most one worker;
\* an event that was not accepted is never processed
C5_ExactlyOnce ==
    \A n \in 1..MaxEvents :
        IF n \in accepted
          THEN /\ QueueCount(n) + runs[n] = 1
               /\ Cardinality({w \in Workers : cur[w][1] = n}) <= runs[n]
          ELSE QueueCount(n) = 0 /\ runs[n] = 0

\* two accepted events are being processed, each by its own worker
C5_Witness ==
    /\ accepted = {1, 2}
    /\ \E w1, w2 \in Workers :
          /\ cur[w1][1] = 1 /\ InPipeline(w1)
          /\ cur[w2][1] = 2 /\ InPipeline(w2)

\* C6: a worker in whose event an exception was raised is never terminated
\* by it: it is still in the pipeline or the pipeline has returned normally,
\* and a worker past the pipeline counts the event, calls task_done and is
\* back at the dequeue
C6_ExceptionContained ==
    /\ [](\A w \in Workers :
            raised[w] => pc[w] \in PipelinePcs \cup {"count_read"})
    /\ [][\A w \in Workers :
            /\ (pc[w] = "count_read" /\ pc'[w] # pc[w])
                  => pc'[w] = "count_write"
            /\ (pc[w] = "count_write" /\ pc'[w] # pc[w])
                  => pc'[w] = "task_done"
            /\ (pc[w] = "task_done" /\ pc'[w] # pc[w])
                  => /\ pc'[w] = "get"
                     /\ unfinished_tasks' = unfinished_tasks - 1]_vars

\* an exception was raised in a worker's event and the pipeline has returned
C6_Witness ==
    \E w \in Workers : raised[w] /\ Returned(w)

\* C7: when the sentinel loop is over one sentinel per worker has been
\* enqueued, and shutdown is complete only when all workers have terminated
C7_ShutdownWaitsForAll ==
    /\ lpc \in {"join", "done"} => nsentinels = NumWorkers
    /\ lpc = "done" => \A w \in Workers : pc[w] = "stopped"

\* C8: two consecutive returns from the wait function of a service are at
\* least the minimum interval of the service apart
C8_MinimumSpacing ==
    \A s \in Services :
        rl_prev[s] >= 0 => rl_last[s] - rl_prev[s] >= min_interval(s)

\* C9: when the pipeline returns for an event whose thread_length is at
\* least the cap and whose parent is not the canned message, it has made
\* exactly one send_post call, the canned message in reply to the trigger;
\* at or over the cap no generation call is made and the pipeline does not
\* go on to generation; below the cap the canned message is never sent
C9_CannedOnce ==
    \A t \in Threads :
        /\ (Returned(t)
              /\ thread_length[t] >= MAX_CONVERSATION_THREAD_DEPTH
              /\ ~ParentIsCanned(Post(cur[t])))
             => sent[t] = <<CannedPost(Post(cur[t]))>>
        /\ thread_length[t] >= MAX_CONVERSATION_THREAD_DEPTH
             => ngen[t] = 0 /\ pc[t] \notin {"pm_mark", "pm_reply_parent",
                                              "gen", "send"}
        /\ thread_length[t] < MAX_CONVERSATION_THREAD_DEPTH
             => \A i \in 1..Len(sent[t]) : sent[t][i].text # "canned"

\* the pipeline has returned after the canned reply to an event at the cap
C9_Witness ==
    \E t \in Threads :
        /\ Returned(t)
        /\ thread_length[t] = MAX_CONVERSATION_THREAD_DEPTH
        /\ ~ParentIsCanned(Post(cur[t]))
        /\ sent[t] = <<CannedPost(Post(cur[t]))>>

\* C10: for an event at or over the cap whose immediate parent is the
\* canned message the pipeline makes no send_post call
C10_NoReplyToCanned ==
    \A t \in Threads :
        (thread_length[t] >= MAX_CONVERSATION_THREAD_DEPTH
           /\ ParentIsCanned(Post(cur[t])))
          => sent[t] = <<>>

\* C11: when the thread view fetched for an event shows a direct reply by
\* the bot under the triggering post, the pipeline makes no send_post call
\* and no generation call for the event
C11_NoReplyWhenBotReplied ==
    \A t \in Threads :
        had_reply[t] => /\ sent[t] = <<>>
                        /\ ngen[t] = 0
                        /\ pc[t] \notin {"gen", "send"}

\* process_mention has returned to the catch-up scan or to the worker
PipelineReturned(t) == cur[t] # None /\ pc[t] = Return(t)

\* the notification is a reply without a mention to a post of another user
ReplyToOther(t) ==
    /\ cur[t] # None
    /\ reason_of(Post(cur[t])) = "reply"
    /\ parent_of(Post(cur[t])) = "user"

MentionsHandle(post_text) ==
    Contains(<<"@">> \o lower(BLUESKY_HANDLE), lower(post_text))

\* C13: an event is yielded to the queue if and only if it is a create
\* event in the post collection, is not authored by the bot, and its text
\* mentions the handle of the bot or it is a reply to a post of the bot
C13_YieldIffRelevant ==
    ws_event # NoEvent =>
        (ws_yield <=>
            /\ ws_event.kind = "commit"
            /\ ws_event.operation = "create"
            /\ ws_event.collection = "app.bsky.feed.post"
            /\ ws_event.did # bot_did
            /\ \/ MentionsHandle(ws_event.text)
               \/ ws_event.parent = bot_did)

\* C15: the generator is at a connection attempt after a connection loss
\* only when it has slept the reconnect delay since the loss
C15_DelayBeforeReconnect ==
    (ws_pc = "connect" /\ ws_loss # "none") => ws_slept

\* C14: the generator never leaves its loop; after every connection loss
\* it is eventually back at websockets.connect, and every time it is there
\* the connection attempt is eventually made
C14_AlwaysReconnects ==
    /\ [](ws_pc \in {"connect", "receive", "message", "on_error", "sleep"})
    /\ (ws_loss # "none") ~> (ws_pc = "connect")
    /\ (ws_pc = "connect") ~> (ws_pc \in {"receive", "on_error"})

\* the generator is back at websockets.connect after a connection error
\* and the sleep
C14_Witness ==
    ws_pc = "connect" /\ ws_loss = "error" /\ ws_slept

\* an entry of text_trace that stands for a call of generate_content
IsAttempt(e) == e # "sleep"

\* C16: the text model is called at most MAX_GEMINI_RETRIES times for an
\* event; a call that is not the first follows an attempt that gave empty or
\* unusable output or raised an exception, and follows the sleep of the retry
\* delay; no call follows the first usable output; a sleep happens only
\* between two attempts, after a failed one.
C16_TextRetryDiscipline ==
    /\ Len(SelectSeq(text_trace, IsAttempt)) <= MAX_GEMINI_RETRIES
    /\ \A i \in 1..Len(text_trace) :
         /\ text_trace[i] = "usable" => i = Len(text_trace)
         /\ (i > 1 /\ IsAttempt(text_trace[i])) => text_trace[i - 1] = "sleep"
         /\ text_trace[i] = "sleep" =>
              /\ i > 1
              /\ text_trace[i - 1] \in {"empty", "blocked", "error"}
              /\ Len(SelectSeq(SubSeq(text_trace, 1, i), IsAttempt))
                    < MAX_GEMINI_RETRIES

\* two failed attempts, each followed by the sleep, and a usable third one
C16_Witness ==
    /\ text_trace = <<"empty", "sleep", "error", "sleep", "usable">>
    /\ g_pc = "media"

\* C17: an attempt on which the backend reports a hard block of the prompt
\* is the last call of the text model for the event, and no reply is posted.
C17_BlockIsTerminal ==
    \A i \in 1..Len(text_trace) :
        text_trace[i] = "blocked" =>
            /\ \A j \in (i + 1)..Len(text_trace) : ~IsAttempt(text_trace[j])
            /\ ~g_posted

\* every attempt of the text model failed with empty output or an exception
AllTextAttemptsFailed ==
    LET calls == SelectSeq(text_trace, IsAttempt)
    IN  /\ Len(calls) = MAX_GEMINI_RETRIES
        /\ \A i \in 1..Len(calls) : calls[i] \in {"empty", "error"}

\* C18: when every attempt of the text model failed through a transient
\* failure, the retries stop at the cap and, once the event is handled, a
\* developer alert has been raised and no reply has been posted.
C18_ExhaustionAlerts ==
    (AllTextAttemptsFailed /\ g_pc = "returned") =>
        /\ Len(SelectSeq(text_trace, IsAttempt)) <= MAX_GEMINI_RETRIES
        /\ g_alerts >= 1
        /\ ~g_posted

\* C19: in image and in video generation an attempt classified as a policy
\* rejection is the last step of the retry loop: no attempt and no sleep
\* follows it, the generator has returned the templated explanation, and no
\* developer alert has been sent for the event.
C19_PolicyEndsLoop ==
    \A i \in 1..Len(media_trace) :
        media_trace[i] = "policy" =>
            /\ i = Len(media_trace)
            /\ media_result = "message"
            /\ g_pc \in {"post_check", "post", "returned"}
            /\ g_alerts = 0

\* an image generation rejected by policy on its second attempt, after a
\* technical failure and the sleep
C19_Witness ==
    /\ media_prompt = "image"
    /\ media_trace = <<"technical", "sleep", "policy">>
    /\ media_result = "message"
    /\ g_pc = "post_check"

\* the steps of a media generation of n attempts that all fail technically
RECURSIVE TechnicalRun(_)
TechnicalRun(n) ==
    IF n <= 1 THEN <<"technical", "alert">>
              ELSE <<"technical", "sleep">> \o TechnicalRun(n - 1)

\* every attempt of the media generation so far was a technical failure
AllTechnical ==
    /\ media_trace # <<>>
    /\ \A i \in 1..Len(media_trace) : media_trace[i] \notin {"ok", "policy"}

IsPrefix(s, t) == Len(s) <= Len(t) /\ s = SubSeq(t, 1, Len(s))

\* C20: when every attempt of an image or video generation is a technical
\* failure, the generator makes exactly the configured number of attempts
\* with the sleep of the retry delay between them, returns None, and raises
\* exactly one developer alert, on the final attempt and on no other.
C20_TechnicalExhaustion ==
    AllTechnical =>
        LET run == TechnicalRun(MaxMediaRetries(media_prompt))
        IN  /\ IsPrefix(media_trace, run)
            /\ g_alerts = (IF media_trace = run THEN 1 ELSE 0)
            /\ g_pc \in {"post_check", "post", "returned"} =>
                  media_trace = run /\ media_result = "None"

\* an image generation that failed technically on all of its attempts
C20_Witness ==
    /\ media_prompt = "image"
    /\ AllTechnical
    /\ Len(SelectSeq(media_trace, LAMBDA e : e = "technical"))
          = MAX_IMAGE_GENERATION_RETRIES
    /\ media_result = "None"
    /\ g_alerts = 1
    /\ g_pc = "returned"

\* the media generation of the event ended in a technical failure and the
\* failure scenarios have been handled
AfterTechnicalFailure ==
    /\ media_prompt # "none"
    /\ media_result = "None"
    /\ g_pc \in {"post", "returned"}

\* C21: after a media generation that ended in a technical failure, the
\* reply text is the body followed by the generic note when the text model
\* gave a body, and nothing is posted when it gave none; the text of the
\* developer alert is never part of the reply.
C21_TechnicalFallback ==
    /\ AfterTechnicalFailure =>
          IF gemini_response_text
            THEN /\ reply_text = <<"body", "fallback_note">>
                 /\ g_pc = "returned" => g_posted
            ELSE /\ reply_text = <<>>
                 /\ g_pc = "returned"
                 /\ ~g_posted
    /\ \A i \in 1..Len(reply_text) : reply_text[i] # "error_msg"

\* a reply posted with the generic note after a failed image generation
C21_Witness ==
    /\ AfterTechnicalFailure
    /\ media_prompt = "image"
    /\ g_alerts = 1
    /\ reply_text = <<"body", "fallback_note">>
    /\ g_posted

\* C22: for every text and every limit, every segment returned by
\* split_text_for_bluesky is non-empty and at most limit characters long.
C22_SegmentsWithinLimit ==
    split_pc = "returned" =>
        \A i \in 1..Len(split_posts) :
            /\ split_posts[i] # <<>>
            /\ Len(split_posts[i]) <= split_limit

\* the words of a list of segments, read segment by segment
RECURSIVE WordsOf(_)
WordsOf(posts) ==
    IF posts = <<>> THEN <<>>
    ELSE str_split(Head(posts), 1, <<>>) \o WordsOf(Tail(posts))

\* C23: the words of the segments returned by split_text_for_bluesky, read
\* segment by segment, are the words of the text in their order, and the
\* empty text gives the empty list.
C23_WordsPreserved ==
    split_pc = "returned" =>
        /\ WordsOf(split_posts) = str_split(split_text, 1, <<>>)
        /\ split_text = <<>> => split_posts = <<>>

\* a text of two sentences that is split between them, and a sentence over
\* the limit that is split by words
C23_Witness ==
    /\ split_pc = "returned"
    /\ split_limit = 3
    /\ split_text = <<"a", ".", " ", "b", "b">>
    /\ split_posts = <<<<"a", ".">>, <<"b", "b">>>>

IsSend(e) == e.op = "send_post"

\* the send_post calls made for the event, in order
Sends == SelectSeq(post_log, IsSend)

\* C24: segment 0 replies to the triggering post, with the root named by the
\* triggering post if that is a reply and the triggering post itself
\* otherwise; every later segment is sent after the previous one was sent,
\* has the post created for the previous segment as parent, and has the root
\* of segment 0.
C24_ReplyChain ==
    \A k \in 1..Len(Sends) :
        /\ Sends[k].i = k - 1
        /\ k = 1 =>
             /\ Sends[k].parent = target_post.uri
             /\ Sends[k].root = IF target_post.reply # NoRef
                                  THEN target_post.reply ELSE target_post.uri
        /\ k > 1 =>
             /\ Sends[k - 1].ok
             /\ Sends[k].parent = ResponseRef(k - 2)
             /\ Sends[k].root = Sends[1].root

\* a chain of three segments under a triggering post that is a reply
C24_Witness ==
    /\ target_post.reply = RootRef
    /\ Len(Sends) = 3
    /\ Sends[3].ok
    /\ Sends[3].parent = ResponseRef(1)
    /\ Sends[3].root = RootRef

\* C25: the posts attempted for an event are the first segments of its reply
\* plan, at most MAX_REPLY_THREAD_DEPTH of them, and no segment is attempted
\* after a send that failed.
C25_PrefixOfPlan ==
    /\ Len(Sends) <= MAX_REPLY_THREAD_DEPTH
    /\ Len(Sends) <= Len(post_texts)
    /\ \A k \in 1..Len(Sends) :
         /\ Sends[k].text = post_texts[k]
         /\ k < Len(Sends) => Sends[k].ok

\* a plan longer than the maximum whose sending is over, and a send that
\* failed before the end of the plan
C25_Witness ==
    /\ Len(post_texts) > MAX_REPLY_THREAD_DEPTH
    /\ Len(Sends) = MAX_REPLY_THREAD_DEPTH
    /\ Sends[Len(Sends)].ok
    /\ post_pc = "returned"

\* C26: in a reply chain only segment 0 carries a media embed; the blob is
\* uploaded before segment 0 is sent, and no later segment carries an embed.
C26_MediaOnFirstOnly ==
    /\ \A k \in 1..Len(Sends) : Sends[k].embed # "None" => k = 1
    /\ \A j \in 1..Len(post_log) :
         /\ post_log[j].op = "upload_blob" => j = 1
         /\ (IsSend(post_log[j]) /\ post_log[j].embed # "None") =>
               /\ j = 2
               /\ post_log[1].op = "upload_blob"
               /\ post_log[1].ok

\* a chain of two segments whose first carries the uploaded video
C26_Witness ==
    /\ Len(post_log) = 3
    /\ post_log[1].op = "upload_blob"
    /\ post_log[2].embed = "video"
    /\ post_log[3].embed = "None"
    /\ post_log[3].ok

\* every send_post call of the event succeeded and the sending is over
AllSent ==
    /\ post_pc = "returned"
    /\ \A k \in 1..Len(Sends) : Sends[k].ok

\* C27: when the text model gave a body of at most the limit of a segment
\* and no media, and the send succeeds, exactly one reply is posted, as a
\* reply to the triggering post, without media.
C27_OneShortReply ==
    (/\ final_response_text # <<>>
     /\ Len(final_response_text) <= BlueskyLimit
     /\ media_data_bytes = "None"
     /\ AllSent) =>
        /\ Len(Sends) = 1
        /\ Sends[1].text = final_response_text
        /\ Sends[1].parent = TriggerRef
        /\ Sends[1].embed = "None"

\* a body of exactly the limit, posted once
C27_Witness ==
    /\ Len(final_response_text) = BlueskyLimit
    /\ media_data_bytes = "None"
    /\ AllSent
    /\ Len(Sends) = 1

\* C28: when the text model gave a response three limits long (900
\* characters) and no media, exactly three segments are posted as a chain,
\* each at most the limit long, the first replying to the trigger and each
\* later one to the previous post of the bot.
C28_ThreeSegments ==
    (/\ Len(final_response_text) = 3 * BlueskyLimit
     /\ media_data_bytes = "None"
     /\ AllSent) =>
        /\ Len(Sends) = 3
        /\ \A k \in 1..Len(Sends) :
             /\ Len(Sends[k].text) <= BlueskyLimit
             /\ Sends[k].parent = IF k = 1 THEN TriggerRef
                                           ELSE ResponseRef(k - 2)

C30_PublicOnlyForCritical ==
    \A i \in 1..Len(dm_log) :
        dm_log[i].public # "none" =>
            /\ dm_log[i].dm = "failed"
            /\ dm_log[i].error_type = "CRITICAL ERROR"

\* a critical error posted in public after its direct message failed, and a
\* queue warning whose direct message failed without a public post
C30_Witness ==
    /\ Len(dm_log) = 2
    /\ dm_log[1] = [error_type |-> "CRITICAL ERROR", dm |-> "failed",
                    public |-> "posted"]
    /\ dm_log[2] = [error_type |-> "QUEUE WARNING", dm |-> "failed",
                    public |-> "none"]

\* C35: the queue is first in, first out: the events on the queue are in the
\* order of their acceptance, every event a worker has taken was accepted
\* before every event still on the queue, no event stands behind a sentinel,
\* and once a worker has taken a sentinel every accepted event has been
\* taken
C35_FifoOrder ==
    LET q == jetstream_event_queue
    IN  /\ \A i, j \in 1..Len(q) :
              (i < j /\ q[i] # None /\ q[j] # None) => q[i][1] < q[j][1]
        /\ \A i \in 1..Len(q) : \A n \in accepted :
              (q[i] # None /\ runs[n] > 0) => n < q[i][1]
        /\ \A i, j \in 1..Len(q) : (i < j /\ q[i] = None) => q[j] = None
        /\ (\E w \in Workers : pc[w] = "stopped")
              => \A n \in accepted : runs[n] > 0

\* the first event was taken by a worker while the second event waits on
\* the queue with a sentinel behind it
C35_Witness ==
    LET q == jetstream_event_queue
    IN  /\ Len(q) = 2
        /\ q[1] # None /\ q[2] = None
        /\ q[1][1] = 2
        /\ runs[1] = 1

\* C37: whenever the queue is empty and no worker is inside an event,
\* events_received equals events_processed plus processing_errors
C37_CountersBalance ==
    (/\ jetstream_event_queue = <<>>
     /\ \A w \in Workers : pc[w] \in {"get", "stopped"})
      => jetstream_stats.events_received =
            jetstream_stats.events_processed
               + jetstream_stats.processing_errors

\* C38: processing_errors is 0 in every reachable state, and a worker whose
\* event raised an exception inside process_jetstream_event is, once it has
\* left the pipeline, at the increment of events_processed
C38_ErrorsStayZero ==
    /\ jetstream_stats.processing_errors = 0
    /\ \A w \in Workers :
          (raised[w] /\ ~InPipeline(w)) => pc[w] = "count_read"
    /\ \A w \in Workers : pc[w] \notin {"count_error", "error_write"}

\* an exception was raised in the second event of a worker, which is about
\* to count it, after a first event was counted
C38_Witness ==
    /\ jetstream_stats.events_processed = 1
    /\ \E w \in Workers : raised[w] /\ pc[w] = "count_read" /\ cur[w][1] = 2

\* C40: the canned message is not sent for a post that already has a reply
\* by the bot: over the lifetime of the process it is sent at most once for
\* a triggering post
C40_CannedAtMostOnce ==
    [][\A t \in Threads :
          (pc[t] \in {"pje_canned", "pm_canned"} /\ sent'[t] # sent[t])
             => Post(cur[t]) \notin botReplied]_vars

\* the calls of the media generators in the log of outbound calls
GeneratorCalls == SeqToSet(outbound) \cap {"generate_images", "generate_videos"}

\* C32: after the parsing of a response at most one of the video directive
\* and the image directive is set; at most one of the two generators is
\* called for an event, the one whose directive is set; and for a response
\* with neither marker no generator is called
C32_OneDirective ==
    /\ parsed.video_prompt = <<>> \/ parsed.image_prompt_for_imagen = <<>>
    /\ Cardinality(GeneratorCalls) <= 1
    /\ "generate_videos" \in GeneratorCalls => parsed.video_prompt # <<>>
    /\ "generate_images" \in GeneratorCalls
          => parsed.image_prompt_for_imagen # <<>>
    /\ (\A i \in 1..Len(parsed.response) : parsed.response[i] = "w")
          => /\ GeneratorCalls = {}
             /\ media_trace = <<>>
             /\ g_pc \notin {"media_call", "poll", "media_sleep"}

\* a response with both markers, the image marker first: the video
\* generator was called and the event is handled
C32_Witness ==
    /\ parsed.response = <<"IMAGE_PROMPT:", "VIDEO_PROMPT:", "w">>
    /\ GeneratorCalls = {"generate_videos"}
    /\ g_pc = "returned"

\* C33: in an attempt of the video generator the operation is polled at most
\* MAX_POLLING_ATTEMPTS times, each poll after a sleep of
\* POLL_INTERVAL_SECONDS; an attempt whose operation is not done after the
\* loop has made all its polls and is a technical failure: on the final
\* attempt None is returned after one alert, else the retry delay follows
C33_PollingTimeout ==
    /\ [](/\ polling.n <= MAX_POLLING_ATTEMPTS
          /\ polling.slept = polling.n * POLL_INTERVAL_SECONDS)
    /\ [][(/\ g_pc = "poll" /\ g_pc' # "poll"
           /\ ~polling.done /\ polling' = polling)
            => /\ polling.n = MAX_POLLING_ATTEMPTS
               /\ IF attempt = MAX_VIDEO_GENERATION_RETRIES - 1
                    THEN /\ media_trace' =
                               media_trace \o <<"technical", "alert">>
                         /\ media_result' = "None"
                         /\ g_alerts' = g_alerts + 1
                         /\ g_pc' = "post_check"
                    ELSE /\ media_trace' = Append(media_trace, "technical")
                         /\ media_result' = media_result
                         /\ g_alerts' = g_alerts
                         /\ g_pc' = "media_sleep"]_vars

\* the final attempt of a video generation has timed out after all its
\* polls and the event is handled
C33_Witness ==
    /\ media_prompt = "video"
    /\ polling.n = MAX_POLLING_ATTEMPTS /\ ~polling.done
    /\ media_trace = <<"technical", "sleep", "technical", "alert">>
    /\ media_result = "None"
    /\ g_alerts = 1
    /\ g_pc = "returned"

\* C36: every call of generate_content, generate_images, generate_videos and
\* send_post comes right after the wait function of its service
C36_WaitBeforeCall ==
    \A i \in 1..Len(outbound) :
        /\ outbound[i] \in {"generate_content", "generate_images",
                            "generate_videos"}
              => i > 1 /\ outbound[i - 1] = "wait_if_needed_gemini"
        /\ outbound[i] = "send_post"
              => i > 1 /\ outbound[i - 1] = "wait_if_needed_bluesky"

\* C39: every send_post call of the reply chain has a text that is not
\* empty or carries a media embed
C39_NoEmptyPost ==
    \A i \in 1..Len(post_log) :
        IsSend(post_log[i]) =>
            post_log[i].text # <<>> \/ post_log[i].embed # "None"

\* C31: when the start of the process has ended without both clients, the
\* catch-up scan, the listener, the workers and the posting thread were not
\* started, and an alert for a critical error was attempted: a call of
\* send_developer_dm that got as far as the direct message or the public
\* post
C31_FailedStartAlerts ==
    (start_pc \in {"exited", "ended"} /\ dm_pc = "idle") =>
        /\ lpc = "start"
        /\ started = {}
        /\ \E i \in 1..Len(dm_log) :
              /\ dm_log[i].error_type = "CRITICAL ERROR"
              /\ dm_log[i].dm # "no_client"

\* the words of the arguments of the call, case folded by hand
ErrorHas(words) ==
    \E i \in 1..Len(cls_args.error_msg) : cls_args.error_msg[i] \in words
ZeroResults ==
    \E i \in 1..(Len(cls_args.error_msg) - 1) :
        /\ cls_args.error_msg[i] \in {"No", "no"}
        /\ cls_args.error_msg[i + 1] \in {"images", "videos"}
PeoplePrompt ==
    \E i \in 1..Len(cls_args.prompt) : cls_args.prompt[i] \in {"Person", "person"}

\* C34 as stated: the classifier returns True for a message with a policy
\* keyword such as "safety", False for a message with "timeout" and no
\* policy keyword, and True for a zero-results message with a prompt that
\* contains "person"
C34_ClassifierExamples ==
    cls_result # "unset" =>
        /\ ErrorHas({"Safety", "safety"}) => cls_result = "True"
        /\ (ErrorHas({"timeout"}) /\ ~ErrorHas({"Safety", "safety"}))
              => cls_result = "False"
        /\ (ZeroResults /\ PeoplePrompt) => cls_result = "True"

\* C34 amended: the classifier returns True for a message with a policy
\* keyword such as "safety"; False for a message with "timeout" and no
\* policy keyword when the message is not a zero-results message for a
\* prompt about people and the response object reports no block reason; and
\* True for a zero-results message with a prompt that contains "person"
C34_Classifier ==
    cls_result # "unset" =>
        /\ ErrorHas({"Safety", "safety"}) => cls_result = "True"
        /\ (/\ ErrorHas({"timeout"}) /\ ~ErrorHas({"Safety", "safety"})
            /\ ~(ZeroResults /\ PeoplePrompt)
            /\ cls_args.response_obj # "blocked")
              => cls_result = "False"
        /\ (ZeroResults /\ PeoplePrompt) => cls_result = "True"

\* a timeout message without a policy keyword, with a prompt about a person
\* and a response object without a block reason, was classified as technical
C34_Witness ==
    /\ cls_args = [error_msg |-> <<"timeout", "No">>,
                   response_obj |-> "clear", prompt |-> <<"a", "Person">>]
    /\ cls_result = "False"

====
